---------------------------- MODULE Spec2Model ----------------------------
(***************************************************************************)
(* A model of the execution engine of umbu's text/template package: the    *)
(* range walk (exec_range.go), the Wrap node and its writer (io.go), the   *)
(* function call check (evalCall), template calls and their depth guard    *)
(* (walkTemplate), the template namespace (template.go), truthiness        *)
(* (isTrue), the render entry point (executor.go), the arguments of a      *)
(* template call, context factories (funcs.go), the write-error setting,   *)
(* the variable stack across nested nodes, the expression evaluator        *)
(* (expr.Expr) and the renders started inside a walk (tpl_yield).          *)
(*                                                                         *)
(* Each part of the engine has its own variables and its own               *)
(* specification (SpecRange, SpecWrap, ...); the variables of the other    *)
(* parts stay at their idle values.                                        *)
(***************************************************************************)
EXTENDS Integers, Sequences, FiniteSets, TLC

VARIABLES
    \* ---- walkRange (exec_range.go) ----
    rnode,      \* the RangeNode: [decl, hasElse]
    rval,       \* the evaluated, indirected pipeline value
    rpc,        \* position inside walkRange
    rfn,        \* the walkRange* function that is running
    rkeys,      \* the result of sortKeys(val.MapKeys())
    ri,         \* the loop counter i
    rchan,      \* what the channel still holds before it is closed
    relem,      \* the element read ahead from a channel
    rempty,     \* the function's result (empty bool)
    rbody,      \* the walks of r.List so far, each with the variables it saw
    relse,      \* how many times r.ElseList was walked
    \* ---- walkWrap (part_008) and wrapWriter (io.go) ----
    wnode,      \* the WrapNode: [strip, hasBegin, hasAfter, hasElse]
    wscript,    \* the Write calls the walk of node.List makes, in order
    wk,         \* how many of them were made
    wpc,        \* position inside walkWrap
    wr,         \* State.wr: "real" (the writer of the render) or "wrap" (&w)
    wNoEmpty,   \* wrapWriter.noEmpty
    wBuf,       \* wrapWriter.buf
    wout,       \* the bytes the real writer received
    wbegins,    \* for each run of w.begin, how much the real writer held then
    wafter,     \* how many times node.AfterList was walked
    welse,      \* how many times node.ElseList was walked
    \* ---- evalCall, funCall (part_008) ----
    cfun,       \* the function found: [name, params, variadic]
    cnargs,     \* len(args) once the function's own node is dropped
    cfinal,     \* final.IsValid(): a value is piped into the call
    cpc,        \* position inside evalCall
    cargv,      \* argv, as the kinds of its values
    cerr,       \* the error the call ended with, if any
    cinvoked,   \* how many times the callable itself ran
    \* ---- walkTemplate (part_008) ----
    tdefs,      \* State.tmpl.tmpl: name -> [args, body], the templates defined
    tstack,     \* the States of the nested walks: [name, pos, depth]
    tpc,        \* "walk", "done", or "error" once errorf or a panic unwound
    terr,       \* the error the render ended with
    tout,       \* how many Text nodes were written
    \* ---- Template, common (template.go) ----
    kobjs,      \* the *Template values made so far: [name, tree, common]
    kcommons,   \* the common structures: each its tmpl map, name -> *Template
    kop,        \* the call made last: [op, on, made]
    \* ---- walkIfOrWith, isTrue (part_008) ----
    inode,      \* the node: [typ, hasElse]
    ival,       \* the value of its pipeline
    ipc,        \* position inside walkIfOrWith
    itruth,     \* what isTrue returned
    ithen,      \* how many times list was walked
    ielse,      \* how many times elseList was walked
    ierr,       \* the error the walk ended with, if any
    \* ---- two renders at once: Executor.execute, walkTemplate ----
    xfull,      \* len of t.Pipe.Cmds[0].Args as parsed; 0: the node has no Pipe
    xwant,      \* len(tmpl.args) of the template called
    xtree,      \* len of t.Pipe.Cmds[0].Args now, in the parse tree shared
    xonNoField, \* Executor.StateOptions.OnNoField is set, in the Executor shared
    xwrites,    \* the shared structures some render has written to
    xpc,        \* per render: its position
    xold,       \* per render: len(oldArgs)
    xargs,      \* per render: len(args)
    xsaw,       \* per render: the len of Args its evalPipeline found
    xres,       \* per render: how it ended
    xdata,      \* per render: its data; with "bad" data the pipeline fails
    \* ---- Executor.Execute, FuncValues (executor.go, funcs.go) ----
    eexecs,     \* the Executors made so far: [parent, funcs]
    emaps,      \* the map[string]*FuncValue made so far, name -> function
    ethis,      \* the receiver of Execute
    eee,        \* ee
    eextras,    \* funcs_, what is left of it
    edata,      \* whether data carries functions (FuncMap, FuncValues, DataFuncs)
    epc,        \* position inside Execute
    eerr,       \* the error Execute returned
    ebefore,    \* what every Executor resolved each name to before the call
    etmpl,      \* t.funcs, the functions of the template
    eover,      \* the names the extra arguments give a function for
    ecalled,    \* what State.GetFunc finds for each name in the render
    \* ---- registering a function (funcs.go) ----
    gname,      \* the name given
    gfun,       \* the value given: its type
    gcheck,     \* the check argument of Set
    gvals,      \* (*v)[0], the first map of the FuncValues
    gpc,        \* which call was made
    gerr,       \* the error it returned
    gres,       \* what a call of the function from a template gave
    \* ---- panics and their recovery (executor.go, part_008) ----
    pframes,    \* the recovery boundaries now on the Go stack, outermost first
    ppanic,     \* the value panicking now, or NoPanic
    pret,       \* how the outermost Execute ended
    pout,       \* number of bytes the destination writer has taken
    pwfail,     \* the destination writer has failed
    pfatal,     \* a fatal has been raised
    pexit,      \* position in pframes of the render in which exit fired, or 0
    pexitEnd,   \* how that render ended
    pafter,      \* that render walked a node after exit fired
    \* ---- the variable stacks of a template call (part_008) ----
    vheap,      \* the arrays behind the slices of variables
    vcaller,    \* this.vars of the caller: [arr, len]
    vcallee,    \* newState.vars: [arr, len]
    vn,         \* tmpl.Tree.InheritedVarsLen
    vdecl,      \* len(tmpl.args)
    vpassed,    \* the values of the arguments passed
    vdot,       \* the dot of the callee
    vpc,        \* position in walkTemplate
    vsnap,      \* the caller's stack when walkTemplate was called
    ventry,     \* the callee's stack when its walk began
    vpushes,    \* number of variables the callee has pushed
    vsteps,      \* number of steps the callee has made on its stack
    \* ---- the arguments of a template call (walkTemplate, part_008) ----
    adot,       \* the caller's dot
    adata,      \* first argument of the call's command, or "none" without pipeline
    aargs,      \* the argument expressions after the first
    adecl,      \* len(tmpl.args), the number of declared arguments
    apc,        \* position inside walkTemplate
    acallee,    \* the local dot after line 630, handed to the callee
    avars,      \* the values bound to the declared arguments so far
    aerr,        \* the panic that ended the call
    \* ---- context factories (funcs.go, evalFunction in part_008) ----
    qfuncs,     \* the registered FuncValue of each name
    qcalls,     \* the names the template still calls in this render, in order
    qfactory,   \* per name: how often the factory was invoked
    qinvoked,    \* per name: how often the resolved callable was invoked
    \* ---- the write-error setting of executors (executor.go) ----
    zexecs,     \* the executors: [parent, writeError], parent 0 for none
    zthis,      \* the executor the caller holds
    zextras,    \* the extra functions given to Execute: "ok", "bad", "invalid type"
    zpc,        \* "build", or "done" once Execute returned
    zerr,       \* what Execute returned
    zwritten,   \* whether Execute wrote the error text to the writer
    zwalked,     \* whether execute was reached
    \* ---- the variable stack across nested nodes (part_008, exec_range.go) ----
    nvars,      \* State.vars: the names of the variables, $ first
    nframes,     \* the walk functions that are running, outermost first
    \* ---- the expression evaluator (expr.Expr) ----
    ya,         \* the left operand
    yb,         \* the right operand
    ypc,        \* "in" before the call of Expr, "out" after it
    yres,        \* what the call gave: a value, an error or a fault
    \* ---- renders started inside a walk (tpl_yield, template_exec, State.Exec) ----
    udefs,      \* the body of each template of the namespace
    ustack,     \* the States whose walk is running: [name, pos, depth], outermost first
    upc,        \* "walk", "done", "error", or "overflow" when the nesting has no end
    uerr        \* the error the render ended with

rangeVars == <<rnode, rval, rpc, rfn, rkeys, ri, rchan, relem, rempty, rbody, relse>>

wrapVars == <<wnode, wscript, wk, wpc, wr, wNoEmpty, wBuf, wout, wbegins, wafter, welse>>

callVars == <<cfun, cnargs, cfinal, cpc, cargv, cerr, cinvoked>>

tmplVars == <<tdefs, tstack, tpc, terr, tout>>

cloneVars == <<kobjs, kcommons, kop>>

ifVars == <<inode, ival, ipc, itruth, ithen, ielse, ierr>>

concVars == <<xfull, xwant, xtree, xonNoField, xwrites, xpc, xold, xargs, xsaw, xres, xdata>>

execVars == <<eexecs, emaps, ethis, eee, eextras, edata, epc, eerr, ebefore,
              etmpl, eover, ecalled>>

regVars == <<gname, gfun, gcheck, gvals, gpc, gerr, gres>>

panicVars == <<pframes, ppanic, pret, pout, pwfail, pfatal, pexit, pexitEnd, pafter>>

stackVars == <<vheap, vcaller, vcallee, vn, vdecl, vpassed, vdot, vpc, vsnap, ventry, vpushes,
               vsteps>>

targVars == <<adot, adata, aargs, adecl, apc, acallee, avars, aerr>>

ctxVars == <<qfuncs, qcalls, qfactory, qinvoked>>

werrVars == <<zexecs, zthis, zextras, zpc, zerr, zwritten, zwalked>>

nestVars == <<nvars, nframes>>

exprVars == <<ya, yb, ypc, yres>>

yieldVars == <<udefs, ustack, upc, uerr>>

vars == <<rangeVars, wrapVars, callVars, tmplVars, cloneVars, ifVars, concVars, execVars, regVars, panicVars, stackVars, targVars, ctxVars, werrVars, nestVars, exprVars, yieldVars>>

-----------------------------------------------------------------------------
(* Bounds of the model *)

\* longest slice, channel content, iterator content and largest integer count
MaxLen == 2

\* most Write calls the body of a Wrap node makes
MaxWrites == 2

\* most parameters of a registered function, and most arguments of a call
MaxParams == 2

MaxArgs == 2

\* most nodes of a template body, most arguments declared by a template or
\* passed by a template call, and the depth that stands for maxExecDepth
MaxNodes == 1

MaxTArgs == 1

DepthBound == 3

\* most *Template values made in one run
MaxObjs == 4

\* most pointers and interfaces wrapped around a value
MaxIndirect == 1

\* most extra arguments (function maps, function values) of one Execute
MaxExtras == 2


\* longest function name, in runes
MaxNameLen == 2


\* most recovery boundaries on the stack at once
MaxFrames == 4

\* most bytes written by one render
MaxBytes == 2

\* most template objects when one name space is looked at alone
MaxNsObjs == 3


\* most variables on the caller's stack below the template call, $ not counted
MaxVars == 1

\* most steps (push, pop, setVar) of the callee on its stack
MaxPush == 2


\* longest list that is a dot of the template call
MaxDotLen == 2


\* most function calls of one render
MaxCalls == 3


\* most executors made before Execute is called
MaxChain == 3


\* deepest nesting of nodes
MaxNest == 2

\* most iterations of a range, most calls of a callback handler
MaxIter == 2

\* most variables one walk of a list declares
MaxDecl == 1


\* largest number that is an operand of an expression
MaxOperand == 1


\* the nesting of walks past which a render is taken to recurse without end
MaxRenders == 5

-----------------------------------------------------------------------------
(* Helpers on sequences *)

Range(s) == {s[i] : i \in 1..Len(s)}

SeqsUpTo(S, n) == UNION {[1..k -> S] : k \in 0..n}

\* every ordering of the finite set S as a sequence without repetition
Perms(S) == {p \in [1..Cardinality(S) -> S] : Range(p) = S}


-----------------------------------------------------------------------------
(***************************************************************************)
(* Values a range pipeline can evaluate to (after indirect).               *)
(*                                                                         *)
(* A map key carries its reflect kind k and its value v.  Integer, uint    *)
(* and float keys hold numbers; string keys hold their bytes; a key of     *)
(* kind "iface" is a key of a map[interface{}]... (what the dict builtin   *)
(* returns) that dynamically holds a string.                               *)
(***************************************************************************)

Elems == 1..2

Strs == {<<97>>, <<97, 98>>, <<98>>}

KeysOfKind(kind) ==
    CASE kind = "int"    -> {[k |-> "int",   v |-> x] : x \in {-1, 0, 2}}
      [] kind = "uint"   -> {[k |-> "uint",  v |-> x] : x \in {0, 1, 3}}
      [] kind = "float"  -> {[k |-> "float", v |-> x] : x \in {-2, 1, 4}}
      [] kind = "string" -> {[k |-> "string", v |-> x] : x \in Strs}
      [] kind = "iface"  -> {[k |-> "iface", v |-> x] : x \in Strs}

KeyKinds == {"int", "uint", "float", "string", "iface"}

SliceVals == {[kind |-> "slice", items |-> s] : s \in SeqsUpTo(Elems, MaxLen)}

MapVals == {[kind |-> "map", keys |-> K] : K \in UNION {SUBSET KeysOfKind(kk) : kk \in KeyKinds}}

ChanVals == {[kind |-> "chan", isNil |-> FALSE, items |-> s] : s \in SeqsUpTo(Elems, MaxLen)}
            \cup {[kind |-> "chan", isNil |-> TRUE, items |-> <<>>]}

IntVals == {[kind |-> "int", n |-> n] : n \in 0..MaxLen}

\* a struct that implements umbu.Iterator over items, or one that does not
StructVals == {[kind |-> "struct", iter |-> TRUE, items |-> s] : s \in SeqsUpTo(Elems, MaxLen)}
              \cup {[kind |-> "struct", iter |-> FALSE, items |-> <<>>]}

InvalidVal == [kind |-> "invalid"]

\* a value of a kind no range function handles
StringVal == [kind |-> "string"]

\* a nil pointer: indirect (part_008 lines 1485-1491) stops at it and
\* returns the pointer itself, of kind Ptr
NilPtrVal == [kind |-> "ptr"]

RangeVals == SliceVals \cup MapVals \cup ChanVals \cup IntVals \cup StructVals
             \cup {InvalidVal, StringVal, NilPtrVal}

\* len(r.Pipe.Decl), with Decl[0].Ptr told apart
Decls == {"0", "1", "ptr", "2", "3"}

\* reflect.Value.MapIndex: the value stored under key
MapIndex(val, key) == [at |-> key]

-----------------------------------------------------------------------------
(* sortKeys and the orders it sorts by *)

\* Go's < on strings: bytewise lexicographic
RECURSIVE StrLess(_, _)
StrLess(a, b) ==
    IF Len(b) = 0 THEN FALSE
    ELSE IF Len(a) = 0 THEN TRUE
    ELSE IF a[1] /= b[1] THEN a[1] < b[1]
    ELSE StrLess(Tail(a), Tail(b))

\* rvInts.Less, rvUints.Less, rvFloats.Less
NumLess(a, b) == a.v < b.v

\* rvStrings.Less
rvStringsLess(a, b) == StrLess(a.v, b.v)

\* sort.Sort by insertion: x is placed before the first element it is less than
RECURSIVE InsertNum(_, _)
InsertNum(x, s) ==
    IF Len(s) = 0 THEN <<x>>
    ELSE IF NumLess(x, s[1]) THEN <<x>> \o s
    ELSE <<s[1]>> \o InsertNum(x, Tail(s))

RECURSIVE SortNum(_)
SortNum(s) == IF Len(s) = 0 THEN <<>> ELSE InsertNum(s[1], SortNum(Tail(s)))

RECURSIVE InsertStr(_, _)
InsertStr(x, s) ==
    IF Len(s) = 0 THEN <<x>>
    ELSE IF rvStringsLess(x, s[1]) THEN <<x>> \o s
    ELSE <<s[1]>> \o InsertStr(x, Tail(s))

RECURSIVE SortStr(_)
SortStr(s) == IF Len(s) = 0 THEN <<>> ELSE InsertStr(s[1], SortStr(Tail(s)))

\* a plausible slip: the reflect.String case left out of the switch
sortKeysNoStringCase(v) ==
    IF Len(v) <= 1 THEN v
    ELSE CASE v[1].k \in {"int", "uint", "float"} -> SortNum(v)
           [] OTHER -> v

\* sortKeys: sorts the keys when their kind is one the switch names
sortKeys(v) ==
    IF Len(v) <= 1 THEN v
    ELSE CASE v[1].k = "float"  -> SortNum(v)
           [] v[1].k = "int"    -> SortNum(v)
           [] v[1].k = "string" -> SortStr(v)
           [] v[1].k = "uint"   -> SortNum(v)
           [] OTHER             -> v

-----------------------------------------------------------------------------
(***************************************************************************)
(* walkRange.  WalkRangeBegin is walkRange up to the first loop step of    *)
(* the function it dispatches to; the Iter actions are one loop step each; *)
(* WalkRangeReturn is what walkRange does after the function returned.     *)
(* A walk of r.List is recorded in rbody with the variables the iteration  *)
(* set, a walk of r.ElseList is counted in relse.                          *)
(***************************************************************************)

\* the switch on len(r.Pipe.Decl) in walkRange
RangeFn(decl) ==
    CASE decl \in {"0", "1"} -> "Default"
      [] decl = "ptr"        -> "State"
      [] decl = "2"          -> "ElemIndex"
      [] decl = "3"          -> "ElemIndexLast"

\* what the function's switch on val.Kind() leaves behind: the loop to run
\* (pc), the sorted keys, the channel's remaining content, the element read
\* ahead, and the result when the function returns at once
Enter(pc, keys, chn, elem, empty) ==
    [pc |-> pc, keys |-> keys, chn |-> chn, elem |-> elem, empty |-> empty]

ReturnAtOnce(empty) == Enter("ret", <<>>, <<>>, 0, empty)

\* walkRangeDefault, lines 58-102; mapKeys is what val.MapKeys() returned
walkRangeDefaultEnter(val, mapKeys) ==
    CASE val.kind = "slice" ->
            IF Len(val.items) = 0 THEN ReturnAtOnce(TRUE)
            ELSE Enter("slice", <<>>, <<>>, 0, FALSE)
      [] val.kind = "map" ->
            IF Cardinality(val.keys) = 0 THEN ReturnAtOnce(TRUE)
            ELSE Enter("map", sortKeys(mapKeys), <<>>, 0, FALSE)
      [] val.kind = "chan" ->
            IF val.isNil THEN ReturnAtOnce(TRUE)
            ELSE Enter("chan", <<>>, val.items, 0, FALSE)
      [] val.kind = "int" -> Enter("int", <<>>, <<>>, 0, FALSE)
      [] val.kind = "invalid" -> ReturnAtOnce(TRUE)
      [] OTHER -> Enter("error", <<>>, <<>>, 0, FALSE)

\* walkRangeWithArgElemAndIndex, lines 114-180
walkRangeWithArgElemAndIndexEnter(val, mapKeys) ==
    CASE val.kind = "slice" ->
            IF Len(val.items) = 0 THEN ReturnAtOnce(TRUE)
            ELSE Enter("slice", <<>>, <<>>, 0, FALSE)
      [] val.kind = "map" ->
            IF Cardinality(val.keys) = 0 THEN ReturnAtOnce(TRUE)
            ELSE Enter("map", sortKeys(mapKeys), <<>>, 0, FALSE)
      [] val.kind = "chan" ->
            IF val.isNil THEN ReturnAtOnce(TRUE)
            ELSE Enter("chan", <<>>, val.items, 0, FALSE)
      [] val.kind = "struct" ->
            IF val.iter THEN Enter("iter", <<>>, val.items, 0, FALSE)
            ELSE Enter("error", <<>>, <<>>, 0, FALSE)
      [] val.kind = "invalid" -> ReturnAtOnce(TRUE)
      [] OTHER -> Enter("error", <<>>, <<>>, 0, FALSE)

\* the channel case of walkRangeWithArgElemAndIndexAndLast (lines 218-238)
\* and of walkRangeWithState (lines 289-317) up to its loop: one element
\* is received before the loop starts
ChanAheadEnter(val) ==
    IF val.isNil THEN ReturnAtOnce(TRUE)
    ELSE IF Len(val.items) = 0 THEN ReturnAtOnce(TRUE)
    ELSE Enter("chanAhead", <<>>, Tail(val.items), Head(val.items), FALSE)

\* walkRangeWithArgElemAndIndexAndLast, lines 194-244
walkRangeWithArgElemAndIndexAndLastEnter(val, mapKeys) ==
    CASE val.kind = "slice" ->
            IF Len(val.items) = 0 THEN ReturnAtOnce(TRUE)
            ELSE Enter("slice", <<>>, <<>>, 0, FALSE)
      [] val.kind = "map" ->
            IF Cardinality(val.keys) = 0 THEN ReturnAtOnce(TRUE)
            ELSE Enter("map", sortKeys(mapKeys), <<>>, 0, FALSE)
      [] val.kind = "chan" -> ChanAheadEnter(val)
      [] val.kind = "invalid" -> ReturnAtOnce(TRUE)
      [] OTHER -> Enter("error", <<>>, <<>>, 0, FALSE)

\* walkRangeWithState, lines 248-323: val.Interface() comes first and
\* panics on the zero Value
walkRangeWithStateEnter(val, mapKeys) ==
    CASE val.kind = "invalid" -> Enter("panic", <<>>, <<>>, 0, FALSE)
      [] val.kind = "slice" ->
            IF Len(val.items) = 0 THEN ReturnAtOnce(TRUE)
            ELSE Enter("slice", <<>>, <<>>, 0, FALSE)
      [] val.kind = "map" ->
            IF Cardinality(val.keys) = 0 THEN ReturnAtOnce(TRUE)
            ELSE Enter("map", sortKeys(mapKeys), <<>>, 0, FALSE)
      [] val.kind = "chan" -> ChanAheadEnter(val)
      [] OTHER -> Enter("error", <<>>, <<>>, 0, FALSE)

EnterFn(fn, val, mapKeys) ==
    CASE fn = "Default"       -> walkRangeDefaultEnter(val, mapKeys)
      [] fn = "ElemIndex"     -> walkRangeWithArgElemAndIndexEnter(val, mapKeys)
      [] fn = "ElemIndexLast" -> walkRangeWithArgElemAndIndexAndLastEnter(val, mapKeys)
      [] fn = "State"         -> walkRangeWithStateEnter(val, mapKeys)

\* a plausible slip: the is-first test stored as the is-last flag
oneIterationLastIsFirst(fn, elem, index, key, last, first) ==
    CASE fn = "Default"       -> [elem |-> elem]
      [] fn = "ElemIndex"     -> [elem |-> elem, index |-> index]
      [] fn = "ElemIndexLast" -> [elem |-> elem, index |-> index, last |-> first]
      [] fn = "State"         -> [elem |-> elem, index |-> index, key |-> key,
                                  last |-> first, first |-> first]

\* oneIteration of each function: the variables it sets before it walks
\* r.List.  index is the second variable (the index, or the map key), key and
\* first are fields of RangeElemState only.
oneIteration(fn, elem, index, key, last, first) ==
    CASE fn = "Default"       -> [elem |-> elem]
      [] fn = "ElemIndex"     -> [elem |-> elem, index |-> index]
      [] fn = "ElemIndexLast" -> [elem |-> elem, index |-> index, last |-> last]
      [] fn = "State"         -> [elem |-> elem, index |-> index, key |-> key,
                                  last |-> last, first |-> first]

RangeInit ==
    /\ rnode \in [decl : Decls, hasElse : BOOLEAN]
    /\ rval \in RangeVals
    /\ rpc = "begin"
    /\ rfn = "none"
    /\ rkeys = <<>>
    /\ ri = 0
    /\ rchan = <<>>
    /\ relem = 0
    /\ rempty = FALSE
    /\ rbody = <<>>
    /\ relse = 0

WalkRangeBegin ==
    /\ rpc = "begin"
    /\ \E mapKeys \in (IF rval.kind = "map" THEN Perms(rval.keys) ELSE {<<>>}) :
          LET fn == RangeFn(rnode.decl)
              e  == EnterFn(fn, rval, mapKeys)
          IN /\ rfn' = fn
             /\ rpc' = e.pc
             /\ rkeys' = e.keys
             /\ rchan' = e.chn
             /\ relem' = e.elem
             /\ rempty' = e.empty
    /\ ri' = 0
    /\ UNCHANGED <<rnode, rval, rbody, relse>>

\* the walk of r.List in oneIteration (this.walk(..., r.List); this.pop(mark))
WalkBody(binding) == rbody' = Append(rbody, binding)

\* case reflect.Array, reflect.Slice of the four functions
IterSlice ==
    /\ rpc = "slice"
    /\ LET l == Len(rval.items) IN
       IF ri < l
       THEN /\ WalkBody(oneIteration(rfn, rval.items[ri + 1], ri, ri, ri = l - 1, ri = 0))
            /\ ri' = ri + 1
            /\ UNCHANGED <<rpc, rempty>>
       ELSE /\ rpc' = "ret"
            /\ rempty' = FALSE
            /\ UNCHANGED <<ri, rbody>>
    /\ UNCHANGED <<rnode, rval, rfn, rkeys, rchan, relem, relse>>

\* case reflect.Map of the four functions: the loop over sortKeys(val.MapKeys())
IterMap ==
    /\ rpc = "map"
    /\ LET l == Cardinality(rval.keys) IN
       IF ri < Len(rkeys)
       THEN LET key == rkeys[ri + 1] IN
            /\ WalkBody(oneIteration(rfn, MapIndex(rval, key),
                                     IF rfn = "State" THEN ri ELSE key,
                                     key, ri = l - 1, ri = 0))
            /\ ri' = ri + 1
            /\ UNCHANGED <<rpc, rempty>>
       ELSE /\ rpc' = "ret"
            /\ rempty' = FALSE
            /\ UNCHANGED <<ri, rbody>>
    /\ UNCHANGED <<rnode, rval, rfn, rkeys, rchan, relem, relse>>

\* case reflect.Chan of walkRangeDefault (lines 76-91) and of
\* walkRangeWithArgElemAndIndex (lines 132-144): val.Recv() until closed
IterChan ==
    /\ rpc = "chan"
    /\ IF Len(rchan) > 0
       THEN /\ WalkBody(oneIteration(rfn, Head(rchan), ri, ri, FALSE, FALSE))
            /\ rchan' = Tail(rchan)
            /\ ri' = ri + 1
            /\ UNCHANGED <<rpc, rempty>>
       ELSE /\ rpc' = "ret"
            /\ rempty' = IF rfn = "Default" THEN ri = 0 ELSE FALSE
            /\ UNCHANGED <<ri, rbody, rchan>>
    /\ UNCHANGED <<rnode, rval, rfn, rkeys, relem, relse>>

\* case reflect.Chan of walkRangeWithArgElemAndIndexAndLast (lines 229-238)
\* and of walkRangeWithState (lines 300-317): the next element is received
\* before the buffered one is walked
IterChanAhead ==
    /\ rpc = "chanAhead"
    /\ IF Len(rchan) > 0
       THEN /\ WalkBody(oneIteration(rfn, relem, ri, ri, FALSE, ri = 0))
            /\ relem' = Head(rchan)
            /\ rchan' = Tail(rchan)
            /\ ri' = ri + 1
            /\ UNCHANGED <<rpc, rempty>>
       ELSE /\ WalkBody(oneIteration(rfn, relem, ri, ri, TRUE, ri = 0))
            /\ rpc' = "ret"
            /\ rempty' = FALSE
            /\ UNCHANGED <<ri, rchan, relem>>
    /\ UNCHANGED <<rnode, rval, rfn, rkeys, relse>>

\* case reflect.Int of walkRangeDefault (lines 92-95): after the loop the
\* switch is left and the function ends in "return true"
IterInt ==
    /\ rpc = "int"
    /\ IF ri < rval.n
       THEN /\ WalkBody(oneIteration(rfn, ri, ri, ri, FALSE, FALSE))
            /\ ri' = ri + 1
            /\ UNCHANGED <<rpc, rempty>>
       ELSE /\ rpc' = "ret"
            /\ rempty' = TRUE
            /\ UNCHANGED <<ri, rbody>>
    /\ UNCHANGED <<rnode, rval, rfn, rkeys, rchan, relem, relse>>

\* case reflect.Struct of walkRangeWithArgElemAndIndex (lines 164-174):
\* it.Start(), then it.Next(state) while !it.Done(state); return i == 0
IterIterator ==
    /\ rpc = "iter"
    /\ IF Len(rchan) > 0
       THEN /\ WalkBody(oneIteration(rfn, Head(rchan), ri, ri, FALSE, FALSE))
            /\ rchan' = Tail(rchan)
            /\ ri' = ri + 1
            /\ UNCHANGED <<rpc, rempty>>
       ELSE /\ rpc' = "ret"
            /\ rempty' = (ri = 0)
            /\ UNCHANGED <<ri, rbody, rchan>>
    /\ UNCHANGED <<rnode, rval, rfn, rkeys, relem, relse>>

\* whether walkRange reaches "if r.ElseList != nil" (line 47) once the
\* function returned empty: case 0 has no return, cases 1, 2 and 3 return
\* unless the function reported empty
ReachesElse(decl, empty) == IF decl = "0" THEN TRUE ELSE empty

\* walkRange, lines 17-49, after the function returned
WalkRangeReturn ==
    /\ rpc = "ret"
    /\ rpc' = "done"
    /\ relse' = IF ReachesElse(rnode.decl, rempty) /\ rnode.hasElse
                THEN relse + 1 ELSE relse
    /\ UNCHANGED <<rnode, rval, rfn, rkeys, ri, rchan, relem, rempty, rbody>>

-----------------------------------------------------------------------------
(***************************************************************************)
(* walkWrap and wrapWriter.  The body (node.List) is a series of Write     *)
(* calls on State.wr; BeginList, AfterList and ElseList are one Text node  *)
(* each, writing "B", "A" and "E".                                         *)
(***************************************************************************)

\* ' ', '\n' and 'x': the bytes the body writes
BodyBytes == {32, 10, 120}

\* what one Write call of the body may carry: nothing, one byte or two
BodyWrites == SeqsUpTo(BodyBytes, 2)

BeginText == <<66>>

AfterText == <<65>>

ElseText == <<69>>

\* a plausible slip: the line feed is left out of the white space
IsSpaceByteNoLF(b) == b \in {32, 9, 13}

\* case ' ', '\t', '\r', '\n' in wrapWriter.Write
IsSpaceByte(b) == b \in {32, 9, 13, 10}

\* the value of i+1 after the loops l0 and l1 of wrapWriter.Write: the
\* number of bytes of p before its first byte that is not white space
RECURSIVE LeadingSpace(_)
LeadingSpace(p) ==
    IF Len(p) = 0 THEN 0
    ELSE IF IsSpaceByte(p[1]) THEN 1 + LeadingSpace(Tail(p))
    ELSE 0

\* w.begin(w.w), lines 535-544 of walkWrap: with State.wr set to the real
\* writer, BeginList is walked if there is one
BeginWrites(node) == IF node.hasBegin THEN BeginText ELSE <<>>

\* a plausible slip: w.begin is run on every Write that brings a byte that
\* is not white space
WriteBeginAgain(node, noEmpty, buf, out, p) ==
    LET k    == LeadingSpace(p)
        rest == SubSeq(p, k + 1, Len(p))
    IN IF Len(p) = 0 THEN [noEmpty |-> noEmpty, buf |-> buf, out |-> out, began |-> FALSE]
       ELSE IF Len(rest) > 0
            THEN [noEmpty |-> TRUE, buf |-> <<>>,
                  out |-> out \o BeginWrites(node)
                          \o (IF node.strip THEN <<>> ELSE buf \o SubSeq(p, 1, k)) \o rest,
                  began |-> TRUE]
            ELSE IF noEmpty THEN [noEmpty |-> TRUE, buf |-> buf, out |-> out \o p, began |-> FALSE]
            ELSE [noEmpty |-> FALSE,
                  buf |-> IF node.strip THEN buf ELSE buf \o p,
                  out |-> out, began |-> FALSE]

\* wrapWriter.Write(p): the writer's fields and the real writer's content
\* after the call, and whether the call ran w.begin
Write(node, noEmpty, buf, out, p) ==
    LET k    == LeadingSpace(p)
        rest == SubSeq(p, k + 1, Len(p))
    IN IF Len(p) = 0 THEN [noEmpty |-> noEmpty, buf |-> buf, out |-> out, began |-> FALSE]
       ELSE IF noEmpty THEN [noEmpty |-> TRUE, buf |-> buf, out |-> out \o p, began |-> FALSE]
       ELSE IF node.strip
            THEN IF Len(rest) > 0
                 THEN [noEmpty |-> TRUE, buf |-> buf,
                       out |-> out \o BeginWrites(node) \o rest, began |-> TRUE]
                 ELSE [noEmpty |-> FALSE, buf |-> buf, out |-> out, began |-> FALSE]
            ELSE IF Len(rest) > 0
                 THEN [noEmpty |-> TRUE, buf |-> <<>>,
                       out |-> out \o BeginWrites(node) \o (buf \o SubSeq(p, 1, k)) \o rest,
                       began |-> TRUE]
                 ELSE [noEmpty |-> FALSE, buf |-> buf \o SubSeq(p, 1, k),
                       out |-> out, began |-> FALSE]

WrapInit ==
    /\ wnode \in [strip : BOOLEAN, hasBegin : BOOLEAN, hasAfter : BOOLEAN, hasElse : BOOLEAN]
    /\ wscript \in SeqsUpTo(BodyWrites, MaxWrites)
    /\ wk = 0
    /\ wpc = "begin"
    /\ wr = "real"
    /\ wNoEmpty = FALSE
    /\ wBuf = <<>>
    /\ wout = <<>>
    /\ wbegins = <<>>
    /\ wafter = 0
    /\ welse = 0

\* walkWrap, lines 532-551: the wrapWriter is built over the current writer
\* and becomes State.wr
WalkWrapBegin ==
    /\ wpc = "begin"
    /\ wpc' = "body"
    /\ wr' = "wrap"
    /\ wNoEmpty' = FALSE
    /\ wBuf' = <<>>
    /\ UNCHANGED <<wnode, wscript, wk, wout, wbegins, wafter, welse>>

\* one Write of the walk of node.List (line 552), on State.wr
BodyWrite ==
    /\ wpc = "body"
    /\ wk < Len(wscript)
    /\ LET w == Write(wnode, wNoEmpty, wBuf, wout, wscript[wk + 1]) IN
          /\ wNoEmpty' = w.noEmpty
          /\ wBuf' = w.buf
          /\ wout' = w.out
          /\ wbegins' = IF w.began THEN Append(wbegins, Len(wout)) ELSE wbegins
    /\ wk' = wk + 1
    /\ UNCHANGED <<wnode, wscript, wpc, wr, wafter, welse>>

\* walkWrap, lines 553-562, once node.List is walked: AfterList is walked
\* on State.wr (still &w, which passes the bytes on), or State.wr is set
\* back and ElseList is walked
WalkWrapEnd ==
    /\ wpc = "body"
    /\ wk = Len(wscript)
    /\ wpc' = "done"
    /\ IF wNoEmpty
       THEN /\ wafter' = IF wnode.hasAfter THEN wafter + 1 ELSE wafter
            /\ wout' = IF wnode.hasAfter
                       THEN Write(wnode, wNoEmpty, wBuf, wout, AfterText).out
                       ELSE wout
            /\ UNCHANGED <<wr, welse>>
       ELSE /\ wr' = "real"
            /\ welse' = IF wnode.hasElse THEN welse + 1 ELSE welse
            /\ wout' = IF wnode.hasElse THEN wout \o ElseText ELSE wout
            /\ UNCHANGED wafter
    /\ UNCHANGED <<wnode, wscript, wk, wNoEmpty, wBuf, wbegins>>

-----------------------------------------------------------------------------
(***************************************************************************)
(* evalCall: a function found under a name is called with the arguments of *)
(* the command node and, in a pipeline, the value piped in.  A parameter   *)
(* is of type *State ("state"), int or interface{} ("any"); an argument of *)
(* the template is an integer constant.                                    *)
(***************************************************************************)

ParamTypes == {"state", "int", "any"}

\* the signatures: *State, where it occurs, is the first parameter; the
\* last parameter of a variadic function is a slice of int or interface{}
FuncTypes ==
    {t \in [params : SeqsUpTo(ParamTypes, MaxParams), variadic : BOOLEAN] :
        /\ \A i \in 2..Len(t.params) : t.params[i] # "state"
        /\ t.variadic => (Len(t.params) > 0 /\ t.params[Len(t.params)] # "state")}

\* the names a function is found under: the builtin call's name, or another
FuncNames == {"call", "f"}

NumIn(typ) == Len(typ.params)

\* line 1121
stateArg(name, typ) ==
    name = "call" \/ (NumIn(typ) > 0 /\ typ.params[1] = "state")

NoError == [kind |-> "none"]

\* this.errorf("wrong number of args for %s: want [at least] %d got %d")
WrongNumber(name, atLeast, want, got) ==
    [kind |-> "wrong number of args", name |-> name,
     atLeast |-> atLeast, want |-> want, got |-> got]

\* reflect.Value.Call: whether a value of the kind v is assignable to a
\* parameter of type t
Assignable(v, t) == t = "any" \/ v = t

\* reflect.Value.Call panics unless the values are as many as the
\* parameters (the fixed ones, if variadic) and assignable to them
CallPanics(typ, argv) ==
    IF typ.variadic
    THEN \/ Len(argv) < NumIn(typ) - 1
         \/ \E k \in 1..Len(argv) :
               ~Assignable(argv[k], typ.params[IF k < NumIn(typ) THEN k ELSE NumIn(typ)])
    ELSE \/ Len(argv) # NumIn(typ)
         \/ \E k \in 1..Len(argv) : ~Assignable(argv[k], typ.params[k])

CallInit ==
    /\ cfun \in {[name |-> n, params |-> t.params, variadic |-> t.variadic] :
                    n \in FuncNames, t \in FuncTypes}
    /\ cnargs \in 0..MaxArgs
    /\ cfinal \in BOOLEAN
    /\ cpc = "check"
    /\ cargv = <<>>
    /\ cerr = NoError
    /\ cinvoked = 0

\* evalCall, lines 1111-1133: the count of the arguments is checked
EvalCallCheck ==
    /\ cpc = "check"
    /\ LET numIn    == cnargs + (IF cfinal THEN 1 ELSE 0)
           fNumIn   == NumIn(cfun) - (IF stateArg(cfun.name, cfun) THEN 1 ELSE 0)
           numFixed == fNumIn - 1
       IN IF cfun.variadic /\ numIn < numFixed
          THEN /\ cerr' = WrongNumber(cfun.name, TRUE, NumIn(cfun) - 1, cnargs)
               /\ cpc' = "done"
          ELSE IF ~cfun.variadic /\ numIn # fNumIn
          THEN /\ cerr' = WrongNumber(cfun.name, FALSE, NumIn(cfun), cnargs)
               /\ cpc' = "done"
          ELSE /\ cerr' = cerr
               /\ cpc' = "build"
    /\ UNCHANGED <<cfun, cnargs, cfinal, cargv, cinvoked>>

\* evalCall, lines 1138-1178: argv is built.  The arguments are integer
\* constants, which evalArg accepts for int and interface{}.  With a piped
\* value, line 1159 asks for typ.In(typ.NumIn()-1+j), which is out of range
\* when j is 1: a run-time panic.
EvalCallBuild ==
    /\ cpc = "build"
    /\ LET j == IF stateArg(cfun.name, cfun) THEN 1 ELSE 0 IN
          IF cfinal /\ j = 1
          THEN /\ cerr' = [kind |-> "runtime panic"]
               /\ cpc' = "done"
               /\ cargv' = cargv
          ELSE /\ cargv' = (IF j = 1 THEN <<"state">> ELSE <<>>)
                           \o [i \in 1..cnargs |-> "int"]
                           \o (IF cfinal THEN <<"int">> ELSE <<>>)
               /\ cpc' = "call"
               /\ cerr' = cerr
    /\ UNCHANGED <<cfun, cnargs, cfinal, cinvoked>>

\* funCallResult and funCall, lines 1182-1192 and 1237-1262: fun.Call(argv);
\* a panic of reflect is recovered and raised as the error of the call
FunCall ==
    /\ cpc = "call"
    /\ IF CallPanics(cfun, cargv)
       THEN /\ cerr' = [kind |-> "calling", name |-> cfun.name]
            /\ cinvoked' = cinvoked
       ELSE /\ cerr' = cerr
            /\ cinvoked' = cinvoked + 1
    /\ cpc' = "done"
    /\ UNCHANGED <<cfun, cnargs, cfinal, cargv>>

-----------------------------------------------------------------------------
(***************************************************************************)
(* walkTemplate: a render starts in template "A" at depth 0; the body of a *)
(* template is a list of Text nodes and template-call nodes.               *)
(***************************************************************************)

\* const maxExecDepth = 100000 in the source; the walk is the same for any
\* value, and the model takes a small one
maxExecDepth == DepthBound

\* the templates of the namespace, and a name that is not defined
TmplNames == {"A", "B"}

UndefinedName == "U"

TextNode == [type |-> "text"]

\* a TemplateNode: the name called and len(args), the arguments after the
\* first of its pipeline
TemplateNodes ==
    [type : {"template"}, name : TmplNames \cup {UndefinedName}, nargs : 0..MaxTArgs]

TmplBodies == SeqsUpTo({TextNode} \cup TemplateNodes, MaxNodes)

\* a plausible slip: the depth is never found to be the maximum
AtMaxDepthNever(depth) == FALSE

\* line 619
AtMaxDepth(depth) == depth = maxExecDepth

TopState == tstack[Len(tstack)]

\* the node the innermost walk is at, if its list is not finished
AtNode == TopState.pos <= Len(tdefs[TopState.name].body)

CurrentNode == tdefs[TopState.name].body[TopState.pos]

\* errorf, or a run-time panic: the nested walks are unwound and the render
\* ends with the error
Raise(kind) ==
    /\ tpc' = "error"
    /\ terr' = [kind |-> kind, depth |-> TopState.depth]
    /\ UNCHANGED <<tdefs, tstack, tout>>

TmplInit ==
    /\ tdefs \in [TmplNames -> [args : 0..MaxTArgs, body : TmplBodies]]
    /\ tstack = <<[name |-> "A", pos |-> 1, depth |-> 0]>>
    /\ tpc = "walk"
    /\ terr = NoError
    /\ tout = 0

\* walk of a Text node: it is written, and the list goes on
WalkText ==
    /\ tpc = "walk"
    /\ AtNode
    /\ CurrentNode.type = "text"
    /\ tout' = tout + 1
    /\ tstack' = [tstack EXCEPT ![Len(tstack)].pos = @ + 1]
    /\ UNCHANGED <<tdefs, tpc, terr>>

\* walkTemplate up to newState.walk(dot, tmpl.Root): the checks, then the
\* new State, one deeper, starts on the callee's list
WalkTemplate ==
    /\ tpc = "walk"
    /\ AtNode
    /\ CurrentNode.type = "template"
    /\ LET t == CurrentNode IN
          IF t.name \notin DOMAIN tdefs
          THEN Raise("not defined")
          ELSE IF AtMaxDepth(TopState.depth)
          THEN Raise("exceeded maximum template depth")
          ELSE IF t.nargs < tdefs[t.name].args
          THEN Raise("bad template args")
          ELSE IF t.nargs > tdefs[t.name].args
          THEN Raise("index out of range")
          ELSE /\ tstack' = Append(tstack, [name |-> t.name, pos |-> 1,
                                            depth |-> TopState.depth + 1])
               /\ UNCHANGED <<tdefs, tpc, terr, tout>>

\* the list of the innermost walk is finished: newState.walk returns and the
\* caller's list goes on after the TemplateNode, or the render is over
WalkTemplateReturn ==
    /\ tpc = "walk"
    /\ ~AtNode
    /\ IF Len(tstack) = 1
       THEN /\ tpc' = "done"
            /\ tstack' = tstack
       ELSE /\ tpc' = tpc
            /\ tstack' = [SubSeq(tstack, 1, Len(tstack) - 1)
                             EXCEPT ![Len(tstack) - 1].pos = @ + 1]
    /\ UNCHANGED <<tdefs, terr, tout>>

-----------------------------------------------------------------------------
(***************************************************************************)
(* Template name spaces: New, Template.New, AddParseTree, Clone, Lookup.   *)
(* A *Template is an index into kobjs, a *common an index into kcommons;   *)
(* 0 is nil.  Every *Template made is a handle the caller may use.         *)
(***************************************************************************)

NsNames == {"a", "b"}

NilTree == "nil"

\* parse trees: two with a body, and one that parse.IsEmptyTree finds empty
Trees == {"T1", "T2", "empty"}

IsEmptyTree(tree) == tree = "empty"

NoTemplate == 0

EmptyTmplMap == [n \in NsNames |-> NoTemplate]

\* Lookup(name) on the template t, lines 173-178: t.tmpl[name]
Lookup(objs, commons, t, name) == commons[objs[t].common][name]

CloneInit ==
    /\ kobjs = <<[name |-> "a", tree |-> NilTree, common |-> 1]>>
    /\ kcommons = <<EmptyTmplMap>>
    /\ kop = [op |-> "New", on |-> NoTemplate, made |-> 1]

\* t.New(name), lines 63-73: a template of t's common, not yet in its map
TemplateNew ==
    /\ Len(kobjs) < MaxObjs
    /\ \E t \in 1..Len(kobjs), name \in NsNames :
          /\ kobjs' = Append(kobjs, [name |-> name, tree |-> NilTree,
                                     common |-> kobjs[t].common])
          /\ kop' = [op |-> "Template.New", on |-> t, made |-> Len(kobjs) + 1]
    /\ UNCHANGED kcommons

\* t.AddParseTree(name, tree), lines 122-136, with associate, lines 208-219
\* a plausible slip: the old template is never kept
associateKeepsNever(objs, old, tree) == FALSE

\* associate, lines 212-216: a template of that name with a Tree is there
\* and the new tree is empty
associateKeeps(objs, old, tree) ==
    /\ old # NoTemplate
    /\ IsEmptyTree(tree)
    /\ objs[old].tree # NilTree

AddParseTreeOf(t, name, tree) ==
    LET fresh   == name # kobjs[t].name
        nt      == IF fresh THEN Len(kobjs) + 1 ELSE t
        objs1   == IF fresh
                   THEN Append(kobjs, [name |-> name, tree |-> NilTree,
                                       common |-> kobjs[t].common])
                   ELSE kobjs
        old     == kcommons[kobjs[t].common][name]
        replace == ~associateKeeps(kobjs, old, tree)
    IN /\ fresh => Len(kobjs) < MaxObjs
       /\ kcommons' = IF replace
                      THEN [kcommons EXCEPT ![kobjs[t].common][name] = nt]
                      ELSE kcommons
       /\ kobjs' = IF replace \/ objs1[nt].tree = NilTree
                   THEN [objs1 EXCEPT ![nt].tree = tree]
                   ELSE objs1
       /\ kop' = [op |-> "AddParseTree", on |-> t, made |-> nt]

AddParseTree ==
    \E t \in 1..Len(kobjs), name \in NsNames, tree \in Trees :
        AddParseTreeOf(t, name, tree)

\* the names of t's map that Clone copies with v.copy(nt.common): all but
\* t's own name
CopiedNames(t) ==
    {n \in NsNames : kcommons[kobjs[t].common][n] # NoTemplate /\ n # kobjs[t].name}

\* a sequence of the elements of a set of names
SeqOfNames(S) == CHOOSE q \in SeqsUpTo(S, Cardinality(S)) : Range(q) = S

\* t.Clone(), lines 90-106, with copy, lines 109-117: nt is a copy of t with
\* a common of its own; under t's own name that map gets nt itself, under
\* every other name a copy of the template the original map holds
Clone ==
    \E t \in 1..Len(kobjs) :
        LET names == SeqOfNames(CopiedNames(t))
            nt    == Len(kobjs) + 1
            c     == Len(kcommons) + 1
            own   == kcommons[kobjs[t].common][kobjs[t].name] # NoTemplate
            copy(v) == [name |-> kobjs[v].name, tree |-> kobjs[v].tree, common |-> c]
        IN /\ Len(kobjs) + 1 + Len(names) <= MaxObjs
           /\ kobjs' = Append(kobjs, copy(t))
                       \o [i \in 1..Len(names) |->
                              copy(kcommons[kobjs[t].common][names[i]])]
           /\ kcommons' = Append(kcommons,
                 [n \in NsNames |->
                     IF n = kobjs[t].name THEN (IF own THEN nt ELSE NoTemplate)
                     ELSE IF \E i \in 1..Len(names) : names[i] = n
                          THEN nt + (CHOOSE i \in 1..Len(names) : names[i] = n)
                          ELSE NoTemplate])
           /\ kop' = [op |-> "Clone", on |-> t, made |-> nt]

-----------------------------------------------------------------------------
(***************************************************************************)
(* walkIfOrWith and isTrue.  A value is a record with its reflect.Kind and *)
(* what isTrue reads of it.                                                *)
(***************************************************************************)

LenKinds == {"array", "map", "slice", "string"}

NumKinds == {"int", "uint", "float", "complex"}

NilKinds == {"chan", "func"}

\* struct values: a ResultOk, one whose type has IsZero() bool, any other
StructTruthVals ==
    [kind : {"struct"}, is : {"ResultOk"}, ok : BOOLEAN]
    \cup [kind : {"struct"}, is : {"IsZeroer"}, zero : BOOLEAN]
    \cup [kind : {"struct"}, is : {"plain"}]

\* the values that are neither pointer nor interface; the last is of kind
\* UnsafePointer, for which the switch of isTrue has no case
DirectVals ==
    {[kind |-> "invalid"]}
    \cup [kind : LenKinds, len : 0..1]
    \cup [kind : {"bool"}, b : BOOLEAN]
    \cup [kind : NumKinds, n : 0..1]
    \cup [kind : NilKinds, isNil : BOOLEAN]
    \cup StructTruthVals
    \cup {[kind |-> "unsafeptr"]}

\* the values with at most d pointers or interfaces around a direct value;
\* what an interface holds is no interface itself
RECURSIVE IndirectVals(_)
IndirectVals(d) ==
    IF d = 0 THEN DirectVals
    ELSE IndirectVals(d - 1)
         \cup [kind : {"ptr", "interface"}, isNil : {TRUE}]
         \cup [kind : {"ptr"}, isNil : {FALSE},
               elem : IndirectVals(d - 1) \ {[kind |-> "invalid"]}]
         \cup [kind : {"interface"}, isNil : {FALSE},
               elem : {v \in IndirectVals(d - 1) : v.kind \notin {"invalid", "interface"}}]

IfVals == IndirectVals(MaxIndirect)

\* a plausible slip: every struct is true, as in the library this was
\* derived from
RECURSIVE isTrueStructAlways(_)
isTrueStructAlways(val) ==
    CASE val.kind = "invalid" -> [truth |-> FALSE, ok |-> TRUE]
      [] val.kind \in LenKinds -> [truth |-> val.len > 0, ok |-> TRUE]
      [] val.kind = "bool" -> [truth |-> val.b, ok |-> TRUE]
      [] val.kind \in NumKinds -> [truth |-> val.n # 0, ok |-> TRUE]
      [] val.kind \in NilKinds -> [truth |-> ~val.isNil, ok |-> TRUE]
      [] val.kind \in {"ptr", "interface"} ->
            IF val.isNil THEN [truth |-> FALSE, ok |-> TRUE]
            ELSE isTrueStructAlways(val.elem)
      [] val.kind = "struct" -> [truth |-> TRUE, ok |-> TRUE]
      [] OTHER -> [truth |-> FALSE, ok |-> FALSE]

\* isTrue, lines 572-611: (truth, ok)
RECURSIVE isTrue(_)
isTrue(val) ==
    CASE val.kind = "invalid" -> [truth |-> FALSE, ok |-> TRUE]
      [] val.kind \in LenKinds -> [truth |-> val.len > 0, ok |-> TRUE]
      [] val.kind = "bool" -> [truth |-> val.b, ok |-> TRUE]
      [] val.kind \in NumKinds -> [truth |-> val.n # 0, ok |-> TRUE]
      [] val.kind \in NilKinds -> [truth |-> ~val.isNil, ok |-> TRUE]
      [] val.kind \in {"ptr", "interface"} ->
            IF val.isNil THEN [truth |-> FALSE, ok |-> TRUE]
            ELSE isTrue(val.elem)
      [] val.kind = "struct" ->
            [truth |-> CASE val.is = "ResultOk" -> val.ok
                         [] val.is = "IsZeroer" -> ~val.zero
                         [] OTHER -> TRUE,
             ok |-> TRUE]
      [] OTHER -> [truth |-> FALSE, ok |-> FALSE]

IfInit ==
    /\ inode \in [typ : {"if", "with"}, hasElse : BOOLEAN]
    /\ ival \in IfVals
    /\ ipc = "begin"
    /\ itruth = [truth |-> FALSE, ok |-> FALSE]
    /\ ithen = 0
    /\ ielse = 0
    /\ ierr = NoError

\* walkIfOrWith, lines 415-420: the pipeline is evaluated and isTrue asked;
\* without a truth value, errorf ends the walk
IfEvalTruth ==
    /\ ipc = "begin"
    /\ itruth' = isTrue(ival)
    /\ IF isTrue(ival).ok
       THEN /\ ipc' = "branch"
            /\ ierr' = ierr
       ELSE /\ ipc' = "done"
            /\ ierr' = [kind |-> "if/with can't use"]
    /\ UNCHANGED <<inode, ival, ithen, ielse>>

\* walkIfOrWith, lines 421-430: list is walked, or elseList if there is one
IfWalkBranch ==
    /\ ipc = "branch"
    /\ ipc' = "done"
    /\ IF itruth.truth
       THEN /\ ithen' = ithen + 1
            /\ ielse' = ielse
       ELSE /\ ielse' = IF inode.hasElse THEN ielse + 1 ELSE ielse
            /\ ithen' = ithen
    /\ UNCHANGED <<inode, ival, itruth, ierr>>

-----------------------------------------------------------------------------
(***************************************************************************)
(* Two renders of one template at the same time, each with a State and a   *)
(* writer of its own, on one Executor and one parse tree.  The template is *)
(* a template call; a step is one access to what the renders share.        *)
(***************************************************************************)

Renders == {1, 2}

NotEnded == [kind |-> "running"]

\* how a render ends: after the checks of walkTemplate the callee is walked
\* with the dot its pipeline gave, which depends on the Args evalPipeline
\* found and on the arguments handed over
RenderEnd(saw, nargs, want) ==
    IF nargs < want THEN [kind |-> "bad template args", want |-> want, got |-> nargs]
    ELSE IF nargs > want THEN [kind |-> "index out of range"]
    ELSE [kind |-> "rendered", pipeArgs |-> saw, args |-> nargs]

ConcInit ==
    /\ xfull \in 0..(1 + MaxTArgs)
    /\ xwant \in 0..MaxTArgs
    /\ xtree = xfull
    /\ xonNoField \in BOOLEAN
    /\ xwrites = {}
    /\ xpc = [r \in Renders |-> "execute"]
    /\ xold = [r \in Renders |-> 0]
    /\ xargs = [r \in Renders |-> 0]
    /\ xsaw = [r \in Renders |-> 0]
    /\ xres = [r \in Renders |-> NotEnded]
    /\ xdata \in [Renders -> {"good", "bad"}]

\* Executor.execute, lines 187-267: the State is made; OnNoField of the
\* Executor is assigned if it is nil
ConcExecute(r) ==
    /\ xpc[r] = "execute"
    /\ xpc' = [xpc EXCEPT ![r] = "read"]
    /\ xonNoField' = TRUE
    /\ xwrites' = IF xonNoField THEN xwrites ELSE xwrites \cup {"Executor"}
    /\ UNCHANGED <<xfull, xwant, xtree, xold, xargs, xsaw, xres, xdata>>

\* walkTemplate, lines 623-627: oldArgs := t.Pipe.Cmds[0].Args and
\* args = oldArgs[1:]; without a Pipe, args stays nil
ConcReadArgs(r) ==
    /\ xpc[r] = "read"
    /\ IF xfull = 0
       THEN /\ xpc' = [xpc EXCEPT ![r] = "walk"]
            /\ UNCHANGED <<xold, xargs>>
       ELSE /\ xpc' = [xpc EXCEPT ![r] = "truncate"]
            /\ xold' = [xold EXCEPT ![r] = xtree]
            /\ xargs' = [xargs EXCEPT ![r] = xtree - 1]
    /\ UNCHANGED <<xfull, xwant, xtree, xonNoField, xwrites, xsaw, xres, xdata>>

\* line 628: t.Pipe.Cmds[0].Args = oldArgs[0:1]
ConcTruncate(r) ==
    /\ xpc[r] = "truncate"
    /\ xpc' = [xpc EXCEPT ![r] = "eval"]
    /\ xtree' = 1
    /\ xwrites' = xwrites \cup {"parse tree"}
    /\ UNCHANGED <<xfull, xwant, xonNoField, xold, xargs, xsaw, xres, xdata>>

\* line 630: dot = this.evalPipeline(dot, t.Pipe), which reads the Args;
\* when the data makes the pipeline fail, errorf unwinds the render from
\* here, and line 631 is not reached
ConcEvalPipeline(r) ==
    /\ xpc[r] = "eval"
    /\ xsaw' = [xsaw EXCEPT ![r] = xtree]
    /\ IF xdata[r] = "bad"
       THEN /\ xpc' = [xpc EXCEPT ![r] = "done"]
            /\ xres' = [xres EXCEPT ![r] = [kind |-> "pipeline failed"]]
       ELSE /\ xpc' = [xpc EXCEPT ![r] = "restore"]
            /\ xres' = xres
    /\ UNCHANGED <<xfull, xwant, xtree, xonNoField, xwrites, xold, xargs, xdata>>

\* line 631: t.Pipe.Cmds[0].Args = oldArgs
ConcRestore(r) ==
    /\ xpc[r] = "restore"
    /\ xpc' = [xpc EXCEPT ![r] = "walk"]
    /\ xtree' = xold[r]
    /\ xwrites' = xwrites \cup {"parse tree"}
    /\ UNCHANGED <<xfull, xwant, xonNoField, xold, xargs, xsaw, xres, xdata>>

\* lines 634-650: the arguments are checked against tmpl.args and the
\* callee is walked
ConcWalkCallee(r) ==
    /\ xpc[r] = "walk"
    /\ xpc' = [xpc EXCEPT ![r] = "done"]
    /\ xres' = [xres EXCEPT ![r] = RenderEnd(xsaw[r], xargs[r], xwant)]
    /\ UNCHANGED <<xfull, xwant, xtree, xonNoField, xwrites, xold, xargs, xsaw, xdata>>

-----------------------------------------------------------------------------
(***************************************************************************)
(* Executor.Execute with extra functions.  An Executor is an index into    *)
(* eexecs, a map[string]*FuncValue an index into emaps; FuncValues is a    *)
(* sequence of such maps.  A function is a positive number; in a FuncMap   *)
(* given by the caller, BadFunc is a value CheckFuncValue refuses.         *)
(***************************************************************************)

FnNames == {"f", "g"}

NoFunc == 0

BadFunc == -1

EmptyFnMap == [n \in FnNames |-> NoFunc]

\* FuncValues.Get, lines 96-107: the first map that has the name decides
RECURSIVE Get(_, _, _)
Get(maps, v, name) ==
    IF Len(v) = 0 THEN NoFunc
    ELSE IF maps[Head(v)][name] # NoFunc THEN maps[Head(v)][name]
    ELSE Get(maps, Tail(v), name)

\* Executor.FindFunc, lines 177-185
RECURSIVE FindFunc(_, _, _, _)
FindFunc(execs, maps, e, name) ==
    IF Get(maps, execs[e].funcs, name) # NoFunc THEN Get(maps, execs[e].funcs, name)
    ELSE IF execs[e].parent # 0 THEN FindFunc(execs, maps, execs[e].parent, name)
    ELSE NoFunc

\* the extra arguments of Execute: a FuncMap, a FuncValues (the caller's
\* own, which is map 3, or the one of the receiver), or a value of another
\* type
ExtraFuncMaps == [type : {"FuncMap"}, m : [FnNames -> {NoFunc, 2, BadFunc}]]

ExtraItems ==
    ExtraFuncMaps
    \cup [type : {"FuncValues"}, of : {"caller", "receiver"}]
    \cup {[type |-> "other"]}

\* a plausible slip: the functions are added to the receiver
ExecuteTargetSelf(this, child) == this

\* line 275: ee = this.NewChild()
ExecuteTarget(this, child) == child

\* NewChild with NewExecutor, lines 89-95 and 328-340: an Executor whose
\* parent is this and whose funcs is NewValues(), one empty map
NewChild(execs, maps, this) ==
    [execs |-> Append(execs, [parent |-> this, funcs |-> <<Len(maps) + 1>>]),
     maps  |-> Append(maps, EmptyFnMap)]

\* FuncValues.Append with Set, SetPair, SetValue, lines 109-136 and 159-169:
\* the entries of the FuncMap, taken in the order names, are checked and put
\* into the first map of v; the first one refused ends it with an error
RECURSIVE AppendFuncs(_, _, _, _)
AppendFuncs(maps, v, m, names) ==
    IF Len(names) = 0 THEN [maps |-> maps, err |-> FALSE]
    ELSE IF m[Head(names)] = BadFunc THEN [maps |-> maps, err |-> TRUE]
    ELSE AppendFuncs([maps EXCEPT ![v[1]][Head(names)] = m[Head(names)]],
                     v, m, Tail(names))

\* state.funcsValue as execute fills it, executor.go lines 250-266: the
\* name g stands for one of its names (trim, join, set, get, ...), f for a
\* name that is none of them
RunHelpers == [f |-> NoFunc, g |-> 3]

\* the functions a template can have got with Template.Funcs
TmplFuncs == {EmptyFnMap, [f |-> 4, g |-> NoFunc]}

\* the function the extra arguments give
OverrideFunc == 2

\* State.GetFunc, lines 878-888, for data without attributes or methods of
\* that name
GetFunc(helpers, tmpl, execs, maps, e, name) ==
    IF helpers[name] # NoFunc THEN helpers[name]
    ELSE IF tmpl[name] # NoFunc THEN tmpl[name]
    ELSE FindFunc(execs, maps, e, name)

\* whether the extra arguments hold a function for the name
Overrides(extras, maps, name) ==
    \E i \in 1..Len(extras) :
        \/ extras[i].type = "FuncMap" /\ extras[i].m[name] = OverrideFunc
        \/ extras[i].type = "FuncValues" /\ extras[i].of = "caller"
              /\ maps[3][name] = OverrideFunc

ExecInit ==
    /\ eexecs = <<[parent |-> 0, funcs |-> <<1>>], [parent |-> 1, funcs |-> <<2>>]>>
    /\ emaps \in {<<[f |-> 1, g |-> NoFunc], m, [f |-> 2, g |-> NoFunc]>> :
                     m \in [FnNames -> {NoFunc, 1}]}
    /\ ethis \in {1, 2}
    /\ eee = 0
    /\ eextras \in SeqsUpTo(ExtraItems, MaxExtras)
    /\ edata \in {"plain", "funcs"}
    /\ epc = "begin"
    /\ eerr = "none"
    /\ ebefore = [e \in {1, 2} |-> [n \in FnNames |-> FindFunc(eexecs, emaps, e, n)]]
    /\ etmpl \in TmplFuncs
    /\ eover = [n \in FnNames |-> Overrides(eextras, emaps, n)]
    /\ ecalled = EmptyFnMap

\* Execute, lines 272-276: with extra arguments, ee is a new child
ExecuteBegin ==
    /\ epc = "begin"
    /\ IF Len(eextras) > 0
       THEN LET c == NewChild(eexecs, emaps, ethis) IN
               /\ eexecs' = c.execs
               /\ emaps' = c.maps
               /\ eee' = ExecuteTarget(ethis, Len(c.execs))
               /\ epc' = "extras"
       ELSE /\ eee' = ethis
            /\ epc' = "run"
            /\ UNCHANGED <<eexecs, emaps>>
    /\ UNCHANGED <<ethis, eextras, edata, eerr, ebefore, etmpl, eover, ecalled>>

\* Execute, lines 276-303: one turn of the loop over funcs_; a Go map is
\* ranged over in any order
ExecuteExtra ==
    /\ epc = "extras"
    /\ Len(eextras) > 0
    /\ LET item == Head(eextras) IN
          CASE item.type = "FuncMap" ->
                  \E names \in Perms({n \in FnNames : item.m[n] # NoFunc}) :
                      LET a == AppendFuncs(emaps, eexecs[eee].funcs, item.m, names) IN
                         /\ emaps' = a.maps
                         /\ eexecs' = eexecs
                         /\ eerr' = IF a.err THEN "install" ELSE eerr
                         /\ epc' = IF a.err THEN "returned"
                                   ELSE IF Len(eextras) = 1 THEN "run" ELSE epc
            [] item.type = "FuncValues" ->
                  /\ eexecs' = [eexecs EXCEPT ![eee].funcs =
                                   @ \o (IF item.of = "caller" THEN <<3>>
                                         ELSE eexecs[ethis].funcs)]
                  /\ emaps' = emaps
                  /\ eerr' = eerr
                  /\ epc' = IF Len(eextras) = 1 THEN "run" ELSE epc
            [] OTHER ->
                  /\ eerr' = "invalid func"
                  /\ epc' = "returned"
                  /\ UNCHANGED <<eexecs, emaps>>
    /\ eextras' = Tail(eextras)
    /\ UNCHANGED <<ethis, eee, edata, ebefore, etmpl, eover, ecalled>>

\* Execute, lines 306-316: data that carries functions gets one more child,
\* whose funcs is NewValues of them; then execute renders, and the State it
\* makes looks functions up with GetFunc
ExecuteRun ==
    /\ epc = "run"
    /\ IF edata = "funcs"
       THEN LET c == NewChild(eexecs, emaps, eee) IN
               /\ eexecs' = [c.execs EXCEPT ![Len(c.execs)].funcs = @ \o <<3>>]
               /\ emaps' = c.maps
       ELSE UNCHANGED <<eexecs, emaps>>
    /\ ecalled' = [n \in FnNames |->
                      GetFunc(RunHelpers, etmpl, eexecs', emaps',
                              IF edata = "funcs" THEN Len(eexecs') ELSE eee, n)]
    /\ epc' = "returned"
    /\ UNCHANGED <<ethis, eee, eextras, edata, eerr, ebefore, etmpl, eover>>

-----------------------------------------------------------------------------
(***************************************************************************)
(* Registering a function: FuncValues.Set and the checks of funcs.go.  A   *)
(* name is a sequence of runes, a rune one of four classes: a letter       *)
(* (unicode.IsLetter), a digit (unicode.IsDigit), '_', anything else.     *)
(***************************************************************************)

RuneClasses == {"letter", "digit", "_", "other"}

RegNames == SeqsUpTo(RuneClasses, MaxNameLen)

\* the values given as functions: a function with its results (the type of
\* the second one told apart), or a value that is no function
ResultTypes == {"error", "bool", "other"}

RegFuncs ==
    [kind : {"func"}, numOut : {0, 1, 3}, out1 : {"other"}]
    \cup [kind : {"func"}, numOut : {2}, out1 : ResultTypes]
    \cup {[kind |-> "int", numOut |-> 0, out1 |-> "other"]}

\* GoodFunc, lines 218-228
GoodFunc(typ) ==
    CASE typ.numOut \in {0, 1} -> TRUE
      [] typ.numOut = 2 -> typ.out1 = "error"
      [] OTHER -> FALSE

\* one turn of the loop of GoodName, lines 236-242: TRUE when it returns false
BadRune(i, r) ==
    CASE r = "_" -> FALSE
      [] i = 1 /\ r # "letter" -> TRUE
      [] r # "letter" /\ r # "digit" -> TRUE
      [] OTHER -> FALSE

\* GoodName, lines 231-245
GoodName(name) ==
    IF Len(name) = 0 THEN FALSE
    ELSE \A i \in 1..Len(name) : ~BadRune(i, name[i])

\* CheckName, lines 256-261
CheckName(name) == IF ~GoodName(name) THEN "not a valid identifier" ELSE "nil"

\* CheckFuncValue, lines 263-274; reflect.Value.Kind is Func for functions
\* only, and a Value of Kind Func is valid
CheckFuncValue(name, vf) ==
    IF vf.kind # "func" THEN "not a function"
    ELSE IF ~GoodFunc(vf) THEN "bad return type"
    ELSE "nil"

\* checkArg, lines 285-287, of the one optional argument
checkArg(check) == check

RegInit ==
    /\ gname \in RegNames
    /\ gfun \in RegFuncs
    /\ gcheck \in BOOLEAN
    /\ gvals = {}
    /\ gpc = "start"
    /\ gerr = "nil"
    /\ gres = "none"

\* FuncValues.Set with SetPair and SetValue, lines 109-136
FuncValuesSet ==
    /\ gpc = "start"
    /\ gpc' = "Set"
    /\ LET err == IF checkArg(gcheck) THEN CheckFuncValue(gname, gfun) ELSE "nil" IN
          /\ gerr' = err
          /\ gvals' = IF err # "nil" THEN gvals
                      ELSE {p \in gvals : p.name # gname}
                           \cup {[name |-> gname, f |-> gfun]}
    /\ UNCHANGED <<gname, gfun, gcheck, gres>>

\* CheckName called with the name
CheckNameCall ==
    /\ gpc = "start"
    /\ gpc' = "CheckName"
    /\ gerr' = CheckName(gname)
    /\ UNCHANGED <<gname, gfun, gcheck, gvals, gres>>

\* funCallResult, lines 1194-1234, for a call that went well and gave no
\* error: what the results become
funCallResult(typ) ==
    CASE typ.numOut = 0 -> "blank"
      [] typ.numOut = 1 -> "value"
      [] typ.numOut = 2 /\ typ.out1 = "bool" -> "ResultOk"
      [] typ.numOut = 2 /\ typ.out1 = "error" -> "value"
      [] OTHER -> "slice"

\* evalCall, lines 1134-1137 and 1179, of a function that was installed,
\* with the number of arguments it wants
RegEvalCall ==
    /\ gpc = "Set"
    /\ [name |-> gname, f |-> gfun] \in gvals
    /\ gpc' = "evalCall"
    /\ IF ~GoodFunc(gfun)
       THEN /\ gerr' = "can't call method/function"
            /\ gres' = gres
       ELSE /\ gerr' = "nil"
            /\ gres' = funCallResult(gfun)
    /\ UNCHANGED <<gname, gfun, gcheck, gvals>>

-----------------------------------------------------------------------------
(***************************************************************************)
(* Panics and the places that recover them.  A walk runs inside            *)
(* Executor.execute (a render call) or inside the handler walkCallback     *)
(* gives to a function; a function runs inside State.funCall.  pframes     *)
(* holds these, outermost first.  A panic leaves them one at a time, each  *)
(* one's deferred function deciding what goes on.                          *)
(***************************************************************************)

NoPanic == [kind |-> "none"]

\* errExit; a *fatal made by State.panic; the writeError struct, which is no
\* error; an ExecError made by errorf; a runtime.Error
PanicKinds == {"errExit", "fatal", "writeError", "ExecError", "runtime"}

Panic(k) == [kind |-> k]

\* whether the value implements error: writeError has only the field Err
IsError(p) == p.kind # "writeError"

\* IsFatal, error.go lines 8-21: a *fatal, or a chain of Cause() that ends in
\* one.  The ExecError of errorf and the errors wrapped around other values
\* hold no *fatal.
IsFatal(p) == p.kind = "fatal"

Running == [kind |-> "running"]

Returned(e) == [kind |-> "return", err |-> e]

Panicked(p) == [kind |-> "panic", val |-> p.kind]

ExecuteFrame(capture) == [kind |-> "execute", capture |-> capture, keeps |-> FALSE]

FunCallFrame(keeps) == [kind |-> "funCall", capture |-> FALSE, keeps |-> keeps]

HandlerFrame == [kind |-> "handler", capture |-> FALSE, keeps |-> FALSE]

Top == pframes[Len(pframes)]

Walking ==
    /\ pret = Running
    /\ ppanic = NoPanic
    /\ Len(pframes) > 0
    /\ Top.kind \in {"execute", "handler"}

RECURSIVE NearestExecute(_)
NearestExecute(frames) ==
    IF Len(frames) = 0 THEN 0
    ELSE IF frames[Len(frames)].kind = "execute" THEN Len(frames)
    ELSE NearestExecute(SubSeq(frames, 1, Len(frames) - 1))

Pop(frames, n) == SubSeq(frames, 1, Len(frames) - n)

\* a node is walked: after exit fired in this render, that is noted
NoteWalk == pafter' = (pafter \/ (pexit # 0 /\ NearestExecute(pframes) = pexit))

\* the render in which exit fired has left the stack: how is noted
NoteEnd(frames, how) ==
    pexitEnd' = IF pexit # 0 /\ pexitEnd = "running" /\ Len(frames) < pexit
                THEN how ELSE pexitEnd

\* funCall's deferred function, lines 1238-1260, with lines 1187-1192 of
\* funCallResult: errExit is raised again; anything else becomes err, and a
\* fatal err is raised as it is, any other through State.panic, which makes
\* a fatal of it (lines 242-260)
funCallRecover(p) ==
    IF p.kind = "errExit" THEN p
    ELSE IF IsFatal(p) THEN p
    ELSE Panic("fatal")

PanicInit ==
    /\ pframes \in {<<ExecuteFrame(c)>> : c \in BOOLEAN}
    /\ ppanic = NoPanic
    /\ pret = Running
    /\ pout = 0
    /\ pwfail = FALSE
    /\ pfatal = FALSE
    /\ pexit = 0
    /\ pexitEnd = "running"
    /\ pafter = FALSE

\* walk of a Text node, or printValue, lines 396-399 and 1521-1524: the
\* writer takes the bytes, or fails and writeError panics
WalkWrite ==
    /\ Walking
    /\ \E ok \in BOOLEAN :
          IF ok
          THEN /\ pout < MaxBytes
               /\ pout' = pout + 1
               /\ UNCHANGED <<ppanic, pwfail>>
          ELSE /\ ppanic' = Panic("writeError")
               /\ pwfail' = TRUE
               /\ pout' = pout
    /\ NoteWalk
    /\ UNCHANGED <<pframes, pret, pfatal, pexit, pexitEnd>>

\* a call of the builtin exit, builtins.go lines 767-769, inside funCall
WalkCallExit ==
    /\ Walking
    /\ Len(pframes) < MaxFrames
    /\ pframes' = Append(pframes, FunCallFrame(FALSE))
    /\ ppanic' = Panic("errExit")
    /\ pexit' = IF pexit = 0 THEN NearestExecute(pframes) ELSE pexit
    /\ NoteWalk
    /\ UNCHANGED <<pret, pout, pwfail, pfatal, pexitEnd>>

\* a call of a function that panics with an error of its own
WalkCallFailing ==
    /\ Walking
    /\ Len(pframes) < MaxFrames
    /\ pframes' = Append(pframes, FunCallFrame(FALSE))
    /\ ppanic' = Panic("runtime")
    /\ NoteWalk
    /\ UNCHANGED <<pret, pout, pwfail, pfatal, pexit, pexitEnd>>

\* walkCallback, lines 465-528: the function is called with the handler and
\* calls it; the handler walks the body.  The function either gives back the
\* error of the handler as its result (as RangeCallback does, builtins.go
\* lines 809-833) or goes on without it.
WalkCallback ==
    /\ Walking
    /\ Len(pframes) + 1 < MaxFrames
    /\ \E keeps \in BOOLEAN :
          pframes' = pframes \o <<FunCallFrame(keeps), HandlerFrame>>
    /\ NoteWalk
    /\ UNCHANGED <<ppanic, pret, pout, pwfail, pfatal, pexit, pexitEnd>>

\* a call of tpl_yield or template_exec, templateYieldName lines 1667-1693:
\* an Executor with noCaptureError set runs Execute; when the data carries
\* functions, Execute runs a child of it (executor.go lines 306-313), which
\* NewChild makes without noCaptureError
WalkYield ==
    /\ Walking
    /\ Len(pframes) + 1 < MaxFrames
    /\ \E dataFuncs \in BOOLEAN :
          pframes' = pframes \o <<FunCallFrame(FALSE), ExecuteFrame(dataFuncs)>>
    /\ NoteWalk
    /\ UNCHANGED <<ppanic, pret, pout, pwfail, pfatal, pexit, pexitEnd>>

\* the walk of the top frame ends without a panic: the handler returns nil
\* and so does its function; a nested Execute returns nil and so does
\* templateYieldName; the outermost Execute returns nil
WalkEnd ==
    /\ Walking
    /\ IF Len(pframes) = 1
       THEN /\ pframes' = <<>>
            /\ pret' = Returned("nil")
            /\ NoteEnd(<<>>, "nil")
       ELSE /\ pframes' = Pop(pframes, 2)
            /\ pret' = pret
            /\ NoteEnd(Pop(pframes, 2), "nil")
    /\ UNCHANGED <<ppanic, pout, pwfail, pfatal, pexit, pafter>>

\* a panic leaves funCall
UnwindFunCall ==
    /\ ppanic # NoPanic
    /\ Len(pframes) > 0
    /\ Top.kind = "funCall"
    /\ ppanic' = funCallRecover(ppanic)
    /\ pfatal' = (pfatal \/ IsFatal(funCallRecover(ppanic)))
    /\ pframes' = Pop(pframes, 1)
    /\ UNCHANGED <<pret, pout, pwfail, pexit, pexitEnd, pafter>>

\* a panic reaches the handler of walkCallback, lines 489-493:
\* err = r.(error).  A value that is no error makes the assertion panic.
\* Else the function gets err from the handler: when it gives it back as its
\* result, funCallResult raises an ExecError with errorf (lines 1197-1203);
\* when not, it returns and the walk goes on.
UnwindHandler ==
    /\ ppanic # NoPanic
    /\ Len(pframes) > 0
    /\ Top.kind = "handler"
    /\ IF ~IsError(ppanic)
       THEN /\ ppanic' = Panic("runtime")
            /\ pframes' = Pop(pframes, 1)
       ELSE /\ ppanic' = IF pframes[Len(pframes) - 1].keeps
                         THEN Panic("ExecError") ELSE NoPanic
            /\ pframes' = Pop(pframes, 2)
    /\ UNCHANGED <<pret, pout, pwfail, pfatal, pexit, pexitEnd, pafter>>

\* a panic reaches Executor.execute, executor.go lines 191-213.  With
\* noCaptureError nothing recovers.  Else errExit ends the render with nil,
\* a fatal is raised again, and any other value becomes an error with the
\* template path in front.  The error of a nested render makes
\* templateYieldName raise a fatal (lines 1687-1692).
UnwindExecute ==
    /\ ppanic # NoPanic
    /\ Len(pframes) > 0
    /\ Top.kind = "execute"
    /\ LET outer == Len(pframes) = 1 IN
       CASE ~Top.capture \/ IsFatal(ppanic) ->
               /\ pframes' = Pop(pframes, 1)
               /\ ppanic' = IF outer THEN NoPanic ELSE ppanic
               /\ pret' = IF outer THEN Panicked(ppanic) ELSE pret
               /\ NoteEnd(Pop(pframes, 1), "panic")
               /\ pfatal' = pfatal
         [] Top.capture /\ ppanic.kind = "errExit" ->
               /\ pframes' = IF outer THEN <<>> ELSE Pop(pframes, 2)
               /\ ppanic' = NoPanic
               /\ pret' = IF outer THEN Returned("nil") ELSE pret
               /\ NoteEnd(Pop(pframes, 1), "nil")
               /\ pfatal' = pfatal
         [] OTHER ->
               /\ pframes' = Pop(pframes, 1)
               /\ ppanic' = IF outer THEN NoPanic ELSE Panic("fatal")
               /\ pret' = IF outer THEN Returned("template path: " \o ppanic.kind)
                          ELSE pret
               /\ NoteEnd(Pop(pframes, 1), "error")
               /\ pfatal' = (pfatal \/ ~outer)
    /\ UNCHANGED <<pout, pwfail, pexit, pafter>>

-----------------------------------------------------------------------------
(***************************************************************************)
(* The variable stacks of a template call.  A Go slice is an array of the  *)
(* heap with a length; the capacity is the length of the array.  What a    *)
(* State sees of its stack is the first len elements.                      *)
(***************************************************************************)

VarValues == {0, 1}

Binding(name, value) == [name |-> name, value |-> value]

Visible(heap, s) == SubSeq(heap[s.arr], 1, s.len)

\* append of one element: in place when the capacity allows, else into a
\* new array of twice the capacity
GoAppend(heap, s, b) ==
    IF s.len < Len(heap[s.arr])
    THEN [heap  |-> [heap EXCEPT ![s.arr][s.len + 1] = b],
          slice |-> [arr |-> s.arr, len |-> s.len + 1]]
    ELSE [heap  |-> Append(heap, Append(Visible(heap, s), b)
                               \o [i \in 1..(IF s.len = 0 THEN 0 ELSE s.len - 1)
                                      |-> Binding("", 0)]),
          slice |-> [arr |-> Len(heap) + 1, len |-> s.len + 1]]

RECURSIVE GoAppendAll(_, _, _)
GoAppendAll(heap, s, bs) ==
    IF Len(bs) = 0 THEN [heap |-> heap, slice |-> s]
    ELSE LET a == GoAppend(heap, s, Head(bs)) IN GoAppendAll(a.heap, a.slice, Tail(bs))

\* a plausible slip: the callee's stack is built on the caller's array
InheritedShared(heap, s, n) == [heap |-> heap, slice |-> [arr |-> s.arr, len |-> n]]

\* line 644: append([]variable{}, newState.vars[:n]...), a new array with
\* the first n elements of the caller's
Inherited(heap, s, n) ==
    [heap  |-> Append(heap, SubSeq(heap[s.arr], 1, n)),
     slice |-> [arr |-> Len(heap) + 1, len |-> n]]

\* the values InheritedVarsLen can have at a template call: the parser sets
\* it from the variables in scope where the call stands
InheritedVarsLens(len) == 0..len

\* the caller's stack: $, then up to MaxVars variables; its array may have
\* room behind them, holding a variable popped earlier
CallerStacks ==
    {<<Binding("$", 0)>> \o s : s \in SeqsUpTo({Binding("$a", v) : v \in VarValues}, MaxVars)}

StackInit ==
    /\ \E s \in CallerStacks, room \in 0..1 :
          /\ vheap = <<s \o [i \in 1..room |-> Binding("$old", 1)]>>
          /\ vcaller = [arr |-> 1, len |-> Len(s)]
          /\ vn \in InheritedVarsLens(Len(s))
          /\ vsnap = s
    /\ vcallee = [arr |-> 0, len |-> 0]
    /\ vdecl \in 0..MaxTArgs
    /\ vpassed \in SeqsUpTo(VarValues, MaxTArgs)
    /\ vdot \in VarValues
    /\ vpc = "call"
    /\ ventry = <<>>
    /\ vpushes = 0
    /\ vsteps = 0

\* walkTemplate, lines 634-650: too few arguments are an error; the callee's
\* stack is built; an argument more than the template declares makes
\* tmpl.args[i] panic
StackWalkTemplate ==
    /\ vpc = "call"
    /\ IF Len(vpassed) < vdecl
       THEN /\ vpc' = "bad template args"
            /\ UNCHANGED <<vheap, vcallee, ventry>>
       ELSE LET base == Inherited(vheap, vcaller, vn)
                all  == GoAppendAll(base.heap, base.slice,
                           <<Binding("$", vdot)>>
                           \o [i \in 1..(IF Len(vpassed) > vdecl THEN vdecl
                                         ELSE Len(vpassed)) |->
                                  Binding("arg", vpassed[i])])
            IN /\ vheap' = all.heap
               /\ vcallee' = all.slice
               /\ vpc' = IF Len(vpassed) > vdecl THEN "index out of range"
                         ELSE "callee"
               /\ ventry' = IF Len(vpassed) > vdecl THEN ventry
                            ELSE Visible(all.heap, all.slice)
    /\ UNCHANGED <<vcaller, vn, vdecl, vpassed, vdot, vsnap, vpushes, vsteps>>

\* push, lines 117-119, in the callee
CalleePush ==
    /\ vpc = "callee"
    /\ vsteps < MaxPush
    /\ \E v \in VarValues :
          LET a == GoAppend(vheap, vcallee, Binding("$a", v)) IN
             /\ vheap' = a.heap
             /\ vcallee' = a.slice
    /\ vpushes' = vpushes + 1
    /\ vsteps' = vsteps + 1
    /\ UNCHANGED <<vcaller, vn, vdecl, vpassed, vdot, vpc, vsnap, ventry>>

\* pop, lines 127-129, to a mark taken in the callee
CalleePop ==
    /\ vpc = "callee"
    /\ vsteps < MaxPush
    /\ vsteps' = vsteps + 1
    /\ \E mark \in Len(ventry)..(vcallee.len - 1) :
          vcallee' = [vcallee EXCEPT !.len = mark]
    /\ UNCHANGED <<vheap, vcaller, vn, vdecl, vpassed, vdot, vpc, vsnap, ventry, vpushes>>

\* setVar, lines 132-134, and updateVar in the callee: a variable of its
\* stack, inherited or not, gets a value
CalleeSetVar ==
    /\ vpc = "callee"
    /\ vsteps < MaxPush
    /\ vsteps' = vsteps + 1
    /\ \E n \in 1..vcallee.len, v \in VarValues :
          /\ vheap[vcallee.arr][vcallee.len - n + 1].value # v
          /\ vheap' = [vheap EXCEPT ![vcallee.arr][vcallee.len - n + 1].value = v]
    /\ UNCHANGED <<vcaller, vcallee, vn, vdecl, vpassed, vdot, vpc, vsnap, ventry, vpushes>>

\* the walk of the callee ends and walkTemplate returns
CalleeReturn ==
    /\ vpc = "callee"
    /\ vpc' = "returned"
    /\ UNCHANGED <<vheap, vcaller, vcallee, vn, vdecl, vpassed, vdot, vsnap, ventry, vpushes,
                   vsteps>>

-----------------------------------------------------------------------------
(***************************************************************************)
(* The arguments of a template call.  A dot is a list: the expression      *)
(* "dot" gives the dot itself, "next" the field holding the rest of the    *)
(* list (an error on the empty list), "one" is a constant.                 *)
(***************************************************************************)

DotValues == SeqsUpTo({0, 1}, MaxDotLen)

ArgExprs == {"dot", "next", "one"}

\* evalFieldNode fails on a nil receiver
EvalFails(dot, expr) == expr = "next" /\ Len(dot) = 0

\* evalCommand, lines 693-733, on a command of one word
evalCommand(dot, expr) ==
    CASE expr = "dot" -> dot
      [] expr = "next" -> Tail(dot)
      [] OTHER -> <<1>>

\* the dot line 648 hands to evalCommand: the local variable dot, which
\* line 630 has set to the value of the first argument
ArgDot(callerDot, calleeDot) == calleeDot

TargInit ==
    /\ adot \in DotValues
    /\ adata \in {"none"} \cup ArgExprs
    /\ aargs \in SeqsUpTo(ArgExprs, MaxTArgs + 1)
    /\ adata = "none" => aargs = <<>>
    /\ adecl \in 0..MaxTArgs
    /\ apc = "call"
    /\ acallee = <<>>
    /\ avars = <<>>
    /\ aerr = ""

\* lines 623-633: with a pipeline of one command the first argument is
\* evaluated and becomes dot, the others are kept as args
TemplateEvalPipeline ==
    /\ apc = "call"
    /\ IF adata = "none"
       THEN /\ acallee' = adot
            /\ apc' = "check"
            /\ aerr' = aerr
       ELSE IF EvalFails(adot, adata)
       THEN /\ apc' = "failed"
            /\ aerr' = "nil pointer evaluating"
            /\ acallee' = acallee
       ELSE /\ acallee' = evalCommand(adot, adata)
            /\ apc' = "check"
            /\ aerr' = aerr
    /\ UNCHANGED <<adot, adata, aargs, adecl, avars>>

\* lines 634-644: fewer arguments than declared is an error
TemplateCheckArgs ==
    /\ apc = "check"
    /\ IF Len(aargs) < adecl
       THEN /\ apc' = "failed"
            /\ aerr' = "bad template args"
       ELSE /\ apc' = "bind"
            /\ aerr' = aerr
    /\ UNCHANGED <<adot, adata, aargs, adecl, acallee, avars>>

\* lines 645-649, one turn of the loop: the index tmpl.args[i] and the call
\* of evalCommand both can panic, in the order the compiler chose
TemplateBindArg ==
    /\ apc = "bind"
    /\ Len(avars) < Len(aargs)
    /\ LET i == Len(avars) + 1
           d == ArgDot(adot, acallee)
           outOfRange == i > adecl
           evalFails == EvalFails(d, aargs[i])
       IN \/ /\ outOfRange
             /\ apc' = "failed"
             /\ aerr' = "index out of range"
             /\ avars' = avars
          \/ /\ evalFails
             /\ apc' = "failed"
             /\ aerr' = "nil pointer evaluating"
             /\ avars' = avars
          \/ /\ ~outOfRange /\ ~evalFails
             /\ avars' = Append(avars, evalCommand(d, aargs[i]))
             /\ UNCHANGED <<apc, aerr>>
    /\ UNCHANGED <<adot, adata, aargs, adecl, acallee>>

\* line 650: the callee's root is walked
TemplateWalkRoot ==
    /\ apc = "bind"
    /\ Len(avars) = Len(aargs)
    /\ apc' = "body"
    /\ UNCHANGED <<adot, adata, aargs, adecl, acallee, avars, aerr>>

-----------------------------------------------------------------------------
(***************************************************************************)
(* Context factories.  A registered function is known by its type; a       *)
(* factory is a function of one Context parameter and one result, and the  *)
(* real callable is what it returns.                                       *)
(***************************************************************************)

RegisteredTypes == [numIn : 1..2, in0 : {"Context", "other"}, numOut : 1..2]

\* NewFuncValue, funcs.go lines 30-47: ctx tells a factory
NewFuncValue(typ) ==
    [ctx |-> (typ.numIn = 1 /\ typ.in0 = "Context" /\ typ.numOut = 1)]

\* ContextualValue, funcs.go lines 65-70: the number of factory calls one
\* resolution makes; nothing is kept from an earlier resolution
ContextualValue(fv) == IF fv.ctx THEN 1 ELSE 0

CtxInit ==
    /\ qfuncs \in {[n \in FnNames |-> NewFuncValue(t[n])] : t \in [FnNames -> RegisteredTypes]}
    /\ qcalls \in SeqsUpTo(FnNames, MaxCalls)
    /\ qfactory = [n \in FnNames |-> 0]
    /\ qinvoked = [n \in FnNames |-> 0]

\* evalFunction, part_008 lines 994-999: getFuncRvalue resolves the name,
\* evalCall invokes what it got
EvalFunction ==
    /\ Len(qcalls) > 0
    /\ LET name == Head(qcalls) IN
          /\ qfactory' = [qfactory EXCEPT ![name] =
                             @ + ContextualValue(qfuncs[name])]
          /\ qinvoked' = [qinvoked EXCEPT ![name] = @ + 1]
    /\ qcalls' = Tail(qcalls)
    /\ UNCHANGED qfuncs

-----------------------------------------------------------------------------
(***************************************************************************)
(* The write-error setting.  writeError is 0 (not set), 1 (WriteError) or  *)
(* 2 (NotWriteError).                                                      *)
(***************************************************************************)

ExtraKinds == {"ok", "bad", "invalid type"}

\* NewChild, executor.go lines 89-95: writeError starts at 0
WerrNewChild(execs, this) == Append(execs, [parent |-> this, writeError |-> 0])

\* IsWriteError, lines 113-122: some executor of the parent chain has 1
RECURSIVE IsWriteError(_, _)
IsWriteError(execs, p) ==
    IF p = 0 THEN FALSE
    ELSE IF execs[p].writeError = 1 THEN TRUE
    ELSE IsWriteError(execs, execs[p].parent)

WerrInit ==
    /\ zexecs = <<[parent |-> 0, writeError |-> 0]>>
    /\ zthis = 1
    /\ zextras \in SeqsUpTo(ExtraKinds, MaxExtras)
    /\ zpc = "build"
    /\ zerr = ""
    /\ zwritten = FALSE
    /\ zwalked = FALSE

\* WriteError, lines 97-103
WriteError ==
    /\ zpc = "build"
    /\ Len(zexecs) < MaxChain
    /\ IF zexecs[zthis].writeError # 1
       THEN /\ zexecs' = [WerrNewChild(zexecs, zthis) EXCEPT ![Len(zexecs) + 1].writeError = 1]
            /\ zthis' = Len(zexecs) + 1
       ELSE UNCHANGED <<zexecs, zthis>>
    /\ UNCHANGED <<zextras, zpc, zerr, zwritten, zwalked>>

\* NotWriteError, lines 105-111
NotWriteError ==
    /\ zpc = "build"
    /\ Len(zexecs) < MaxChain
    /\ IF zexecs[zthis].writeError # 2
       THEN /\ zexecs' = [WerrNewChild(zexecs, zthis) EXCEPT ![Len(zexecs) + 1].writeError = 2]
            /\ zthis' = Len(zexecs) + 1
       ELSE UNCHANGED <<zexecs, zthis>>
    /\ UNCHANGED <<zextras, zpc, zerr, zwritten, zwalked>>

\* NewChild called by the program
ProgramNewChild ==
    /\ zpc = "build"
    /\ Len(zexecs) < MaxChain
    /\ zexecs' = WerrNewChild(zexecs, zthis)
    /\ zthis' = Len(zexecs) + 1
    /\ UNCHANGED <<zextras, zpc, zerr, zwritten, zwalked>>

\* the first extra that AppendFuncs refuses or whose type the switch does
\* not know, 0 if none
FirstFailing(extras) ==
    IF \E i \in 1..Len(extras) : extras[i] # "ok"
    THEN CHOOSE i \in 1..Len(extras) :
            /\ extras[i] # "ok"
            /\ \A j \in 1..(i - 1) : extras[j] = "ok"
    ELSE 0

\* Execute, lines 271-317
WerrExecute ==
    /\ zpc = "build"
    /\ zpc' = "done"
    /\ zexecs' = IF Len(zextras) > 0 THEN WerrNewChild(zexecs, zthis) ELSE zexecs
    /\ LET i == FirstFailing(zextras) IN
          IF i # 0
          THEN /\ zerr' = zextras[i]
               /\ zwritten' = IsWriteError(zexecs, zthis)
               /\ zwalked' = FALSE
          ELSE /\ zerr' = ""
               /\ zwritten' = FALSE
               /\ zwalked' = TRUE
    /\ UNCHANGED <<zthis, zextras>>

-----------------------------------------------------------------------------
(***************************************************************************)
(* The variable stack across nested nodes.  A walk function is a frame:    *)
(* deferred is the argument of its deferred pop, which Go evaluates at the *)
(* defer statement; inner is the mark a range takes after its pipeline, or *)
(* the one a callback handler takes when called; left counts the walks of  *)
(* the body still to come.                                                 *)
(***************************************************************************)

NestTypes == {"if", "with", "range", "wrap", "arg", "callback"}

\* push, part_008 lines 117-119
push(vs, name) == Append(vs, name)

\* mark, lines 122-124
mark(vs) == Len(vs)

\* a plausible slip: the stack is left as it is
popNothing(vs, m) == vs

\* pop, lines 127-129
pop(vs, m) == SubSeq(vs, 1, m)

RECURSIVE pushAll(_, _, _)
pushAll(vs, name, n) == IF n = 0 THEN vs ELSE pushAll(push(vs, name), name, n - 1)

\* If, With and Range evaluate their pipeline, whose declarations are pushed
\* (evalPipeline, lines 673-683); walkCallback pushes $0, $@ and $!
AfterPipeline(vs, type, ndecl) ==
    CASE type \in {"if", "with", "range"} -> pushAll(vs, "$d", ndecl)
      [] type = "callback" -> push(push(push(vs, "$0"), "$@"), "$!")
      [] OTHER -> vs

\* how often the body can be walked
Walks(type) == IF type \in {"range", "callback"} THEN 0..MaxIter ELSE 0..1

InBody == IF Len(nframes) = 0 THEN TRUE ELSE nframes[Len(nframes)].phase = "body"

NestInit ==
    /\ nvars = <<"$">>
    /\ nframes = <<>>

\* an action node with a declaration, walk lines 377-383: the variable
\* stays on the stack
Declare ==
    /\ Len(nframes) > 0
    /\ nframes[Len(nframes)].phase = "body"
    /\ nframes[Len(nframes)].declared < MaxDecl
    /\ nvars' = push(nvars, "$b")
    /\ nframes' = [nframes EXCEPT ![Len(nframes)].declared = @ + 1]

\* walkIfOrWith lines 416-417, walkRange lines 12-15, walkArg 435-444,
\* walkCallback 466-480, walkWrap 532-551: the deferred pop is set up, the
\* pipeline evaluated, the range's mark taken
EnterNode ==
    /\ InBody
    /\ Len(nframes) < MaxNest
    /\ \E type \in NestTypes, ndecl \in 0..1 :
          \E left \in Walks(type) :
             LET vs == AfterPipeline(nvars, type, ndecl) IN
                /\ nvars' = vs
                /\ nframes' = Append(nframes,
                      [type |-> type, deferred |-> mark(nvars), before |-> nvars,
                       inner |-> mark(vs), atInner |-> vs, left |-> left,
                       phase |-> "loop", declared |-> 0])

\* the body is walked: by oneIteration of a range, by the handler of a
\* callback (lines 482-495, which takes its own mark), or once by the others
BodyStart ==
    /\ Len(nframes) > 0
    /\ LET f == nframes[Len(nframes)] IN
          /\ f.phase = "loop"
          /\ f.left > 0
          /\ nframes' = [nframes EXCEPT ![Len(nframes)] =
                            [f EXCEPT !.phase = "body", !.left = @ - 1, !.declared = 0,
                                      !.inner = IF f.type = "callback" THEN mark(nvars)
                                                ELSE @]]
    /\ UNCHANGED nvars

\* the walk of the body returns: oneIteration pops to the range's mark
\* (exec_range.go line 56), the handler's deferred pop runs (line 483)
BodyEnd ==
    /\ Len(nframes) > 0
    /\ LET f == nframes[Len(nframes)] IN
          /\ f.phase = "body"
          /\ nframes' = [nframes EXCEPT ![Len(nframes)].phase = "loop"]
          /\ nvars' = IF f.type \in {"range", "callback"} THEN pop(nvars, f.inner)
                      ELSE nvars

\* the walk function returns and its deferred pop runs
ExitNode ==
    /\ Len(nframes) > 0
    /\ LET f == nframes[Len(nframes)] IN
          /\ f.phase = "loop"
          /\ f.left = 0
          /\ nvars' = pop(nvars, f.deferred)
    /\ nframes' = SubSeq(nframes, 1, Len(nframes) - 1)

-----------------------------------------------------------------------------
(***************************************************************************)
(* The expression evaluator, operator +.  A value has a reflect kind, a    *)
(* number n (for the numeric kinds) and a text s (for strings).            *)
(***************************************************************************)

ExprValue(kind, n, s) == [kind |-> kind, n |-> n, s |-> s]

\* the kinds of the model that hold a number
NumericKinds == {"int", "uint8", "uint", "int64", "uint64", "float64"}

ExprVals ==
    {ExprValue(k, n, "") : k \in NumericKinds, n \in 0..MaxOperand}
    \cup {ExprValue("string", 0, s) : s \in {"a", "b"}}
    \cup {ExprValue("bool", 0, "true"), ExprValue("slice", 0, "[x]"),
          ExprValue("invalid", 0, "")}

\* the two switches of lines 50-65: Uint8, Uint16 and Uint32 become uint64,
\* Int, Int8, Int16 and Int32 become int64, Float32 becomes float64
NormalizeOperand(v) ==
    CASE v.kind = "uint8" -> ExprValue("uint64", v.n, "")
      [] v.kind = "int"   -> ExprValue("int64", v.n, "")
      [] OTHER -> v

\* strconv of a small number
Digits(n) == CASE n = 0 -> "0" [] n = 1 -> "1" [] n = 2 -> "2" [] n = 3 -> "3" [] OTHER -> "4"

\* fmt.Sprint(v.Interface()) of a valid value
Sprint(v) == IF v.kind \in NumericKinds THEN Digits(v.n) ELSE v.s

ExprOk(v) == [kind |-> "value", val |-> v, what |-> ""]

ExprFault(what) == [kind |-> "fault", val |-> ExprValue("invalid", 0, ""), what |-> what]

\* a.Convert(at), line 292: a number converts to every numeric type, a
\* string to string; a string does not convert to a numeric type
ConvertTo(v, at) ==
    IF v.kind \in NumericKinds /\ at \in NumericKinds
    THEN ExprOk(ExprValue(at, v.n, ""))
    ELSE IF v.kind = at THEN ExprOk(v)
    ELSE ExprFault("reflect.Value.Convert")

\* the string both inner and outer defaults build; Interface() faults on
\* the zero Value
Concatenation(a, b) ==
    IF b.kind = "invalid" THEN ExprFault("reflect.Value.Interface")
    ELSE ExprOk(ExprValue("string", 0, Sprint(a) \o Sprint(b)))

\* Expr with OpSum, lines 45-114 and 290-296
ExprSum(a0, b0) ==
    IF a0.kind = "invalid" THEN ExprOk(b0)
    ELSE LET at == a0.kind
             a  == NormalizeOperand(a0)
             b  == NormalizeOperand(b0)
             three == {"uint64", "int64", "float64"}
         IN CASE a.kind \in three ->
                    IF b.kind \in three
                    THEN ConvertTo(ExprValue(a.kind, a.n + b.n, ""), at)
                    ELSE LET c == Concatenation(a, b) IN
                            IF c.kind = "fault" THEN c ELSE ConvertTo(c.val, at)
              [] a.kind = "slice" -> ExprFault("reflect.Value.Elem")
              [] OTHER -> Concatenation(a, b)

ExprInit ==
    /\ ya \in ExprVals
    /\ yb \in ExprVals
    /\ ypc = "in"
    /\ yres = ExprOk(ExprValue("invalid", 0, ""))

\* the call Expr(OpSum, a, b)
EvalExprSum ==
    /\ ypc = "in"
    /\ ypc' = "out"
    /\ yres' = ExprSum(ya, yb)
    /\ UNCHANGED <<ya, yb>>

-----------------------------------------------------------------------------
(***************************************************************************)
(* Renders started inside a walk.  A yield node stands for a call of       *)
(* tpl_yield, template_exec or State.Exec with a template name: all three  *)
(* make an Executor of the named template and run it.                      *)
(***************************************************************************)

YieldNodes == [type : {"yield", "template"}, name : TmplNames \cup {UndefinedName}]

YieldBodies == SeqsUpTo({TextNode} \cup YieldNodes, MaxNodes)

\* execute, executor.go lines 226-238: the State of a render is made
\* without a depth, which is 0
ExecuteDepth(callerDepth) == 0

UTop == ustack[Len(ustack)]

UAtNode == UTop.pos <= Len(udefs[UTop.name])

UNode == udefs[UTop.name][UTop.pos]

URaise(kind) ==
    /\ upc' = "error"
    /\ uerr' = [kind |-> kind, depth |-> UTop.depth]
    /\ UNCHANGED <<udefs, ustack>>

\* a new walk starts under the running ones
UNested(name, depth) ==
    IF Len(ustack) >= MaxRenders
    THEN /\ upc' = "overflow"
         /\ UNCHANGED <<udefs, ustack, uerr>>
    ELSE /\ ustack' = Append(ustack, [name |-> name, pos |-> 1, depth |-> depth])
         /\ UNCHANGED <<udefs, upc, uerr>>

YieldInit ==
    /\ udefs \in [TmplNames -> YieldBodies]
    /\ ustack = <<[name |-> "A", pos |-> 1, depth |-> ExecuteDepth(0)]>>
    /\ upc = "walk"
    /\ uerr = NoError

\* walk of a Text node
YieldWalkText ==
    /\ upc = "walk"
    /\ UAtNode
    /\ UNode.type = "text"
    /\ ustack' = [ustack EXCEPT ![Len(ustack)].pos = @ + 1]
    /\ UNCHANGED <<udefs, upc, uerr>>

\* walkTemplate, part_008 lines 613-650, of a call without arguments
YieldWalkTemplate ==
    /\ upc = "walk"
    /\ UAtNode
    /\ UNode.type = "template"
    /\ IF UNode.name \notin DOMAIN udefs
       THEN URaise("not defined")
       ELSE IF AtMaxDepth(UTop.depth)
       THEN URaise("exceeded maximum template depth")
       ELSE UNested(UNode.name, UTop.depth + 1)

\* templateYieldName, lines 1667-1693, and Exec, lines 1696-1729: the
\* checks, then a new Executor runs the template
TemplateYieldName ==
    /\ upc = "walk"
    /\ UAtNode
    /\ UNode.type = "yield"
    /\ IF UNode.name \notin DOMAIN udefs
       THEN URaise("not defined")
       ELSE IF AtMaxDepth(UTop.depth)
       THEN URaise("exceeded maximum template depth")
       ELSE UNested(UNode.name, ExecuteDepth(UTop.depth))

\* the list of the innermost walk is finished
YieldWalkReturn ==
    /\ upc = "walk"
    /\ ~UAtNode
    /\ IF Len(ustack) = 1
       THEN /\ upc' = "done"
            /\ ustack' = ustack
       ELSE /\ upc' = upc
            /\ ustack' = [SubSeq(ustack, 1, Len(ustack) - 1)
                             EXCEPT ![Len(ustack) - 1].pos = @ + 1]
    /\ UNCHANGED <<udefs, uerr>>

-----------------------------------------------------------------------------
(* The specifications *)

\* Each specification runs one part of the interpreter; the variables of the
\* other parts stay at rest.
RangeIdle ==
    /\ rnode = [decl |-> "0", hasElse |-> FALSE]
    /\ rval = InvalidVal
    /\ rpc = "done"
    /\ rfn = "walkRangeDefault"
    /\ rkeys = <<>>
    /\ ri = 0
    /\ rchan = <<>>
    /\ relem = 0
    /\ rempty = TRUE
    /\ rbody = <<>>
    /\ relse = 0

WrapIdle ==
    /\ wnode = [strip |-> FALSE, hasBegin |-> FALSE, hasAfter |-> FALSE, hasElse |-> FALSE]
    /\ wscript = <<>>
    /\ wk = 0
    /\ wpc = "done"
    /\ wr = "real"
    /\ wNoEmpty = FALSE
    /\ wBuf = <<>>
    /\ wout = <<>>
    /\ wbegins = <<>>
    /\ wafter = 0
    /\ welse = 0

CallIdle ==
    /\ cfun = [name |-> "f", params |-> <<>>, variadic |-> FALSE]
    /\ cnargs = 0
    /\ cfinal = FALSE
    /\ cpc = "done"
    /\ cargv = <<>>
    /\ cerr = NoError
    /\ cinvoked = 0

TmplIdle ==
    /\ tdefs = [n \in TmplNames |-> [args |-> 0, body |-> <<>>]]
    /\ tstack = <<>>
    /\ tpc = "done"
    /\ terr = NoError
    /\ tout = 0

CloneIdle ==
    /\ kobjs = <<>>
    /\ kcommons = <<>>
    /\ kop = [op |-> "none"]

IfIdle ==
    /\ inode = [typ |-> "if", hasElse |-> FALSE]
    /\ ival = [kind |-> "invalid"]
    /\ ipc = "done"
    /\ itruth = [truth |-> FALSE, ok |-> FALSE]
    /\ ithen = 0
    /\ ielse = 0
    /\ ierr = NoError

ConcIdle ==
    /\ xfull = 0
    /\ xwant = 0
    /\ xtree = 0
    /\ xonNoField = TRUE
    /\ xwrites = {}
    /\ xpc = [r \in Renders |-> "done"]
    /\ xold = [r \in Renders |-> 0]
    /\ xargs = [r \in Renders |-> 0]
    /\ xsaw = [r \in Renders |-> 0]
    /\ xres = [r \in Renders |-> NotEnded]
    /\ xdata = [r \in Renders |-> "good"]

ExecIdle ==
    /\ eexecs = <<>>
    /\ emaps = <<>>
    /\ ethis = 0
    /\ eee = 0
    /\ eextras = <<>>
    /\ edata = "plain"
    /\ epc = "returned"
    /\ eerr = "none"
    /\ ebefore = <<>>
    /\ etmpl = <<>>
    /\ eover = <<>>
    /\ ecalled = <<>>

RegIdle ==
    /\ gname = <<>>
    /\ gfun = [kind |-> "int", numOut |-> 0, out1 |-> "other"]
    /\ gcheck = TRUE
    /\ gvals = {}
    /\ gpc = "returned"
    /\ gerr = "nil"
    /\ gres = "none"

PanicIdle ==
    /\ pframes = <<>>
    /\ ppanic = NoPanic
    /\ pret = Returned("nil")
    /\ pout = 0
    /\ pwfail = FALSE
    /\ pfatal = FALSE
    /\ pexit = 0
    /\ pexitEnd = "running"
    /\ pafter = FALSE

StackIdle ==
    /\ vheap = <<>>
    /\ vcaller = [arr |-> 0, len |-> 0]
    /\ vcallee = [arr |-> 0, len |-> 0]
    /\ vn = 0
    /\ vdecl = 0
    /\ vpassed = <<>>
    /\ vdot = 0
    /\ vpc = "returned"
    /\ vsnap = <<>>
    /\ ventry = <<>>
    /\ vpushes = 0
    /\ vsteps = 0

TargIdle ==
    /\ adot = <<>>
    /\ adata = "none"
    /\ aargs = <<>>
    /\ adecl = 0
    /\ apc = "done"
    /\ acallee = <<>>
    /\ avars = <<>>
    /\ aerr = ""

CtxIdle ==
    /\ qfuncs = <<>>
    /\ qcalls = <<>>
    /\ qfactory = <<>>
    /\ qinvoked = <<>>

WerrIdle ==
    /\ zexecs = <<>>
    /\ zthis = 0
    /\ zextras = <<>>
    /\ zpc = "idle"
    /\ zerr = ""
    /\ zwritten = FALSE
    /\ zwalked = FALSE

NestIdle ==
    /\ nvars = <<>>
    /\ nframes = <<>>

ExprIdle ==
    /\ ya = ExprValue("invalid", 0, "")
    /\ yb = ExprValue("invalid", 0, "")
    /\ ypc = "idle"
    /\ yres = ExprOk(ExprValue("invalid", 0, ""))

YieldIdle ==
    /\ udefs = <<>>
    /\ ustack = <<>>
    /\ upc = "idle"
    /\ uerr = NoError

allButRange == <<wrapVars, callVars, tmplVars, cloneVars, ifVars, concVars, execVars, regVars, panicVars, stackVars, targVars, ctxVars, werrVars, nestVars, exprVars, yieldVars>>

allButWrap == <<rangeVars, callVars, tmplVars, cloneVars, ifVars, concVars, execVars, regVars, panicVars, stackVars, targVars, ctxVars, werrVars, nestVars, exprVars, yieldVars>>

allButCall == <<rangeVars, wrapVars, tmplVars, cloneVars, ifVars, concVars, execVars, regVars, panicVars, stackVars, targVars, ctxVars, werrVars, nestVars, exprVars, yieldVars>>

allButTmpl == <<rangeVars, wrapVars, callVars, cloneVars, ifVars, concVars, execVars, regVars, panicVars, stackVars, targVars, ctxVars, werrVars, nestVars, exprVars, yieldVars>>

allButClone == <<rangeVars, wrapVars, callVars, tmplVars, ifVars, concVars, execVars, regVars, panicVars, stackVars, targVars, ctxVars, werrVars, nestVars, exprVars, yieldVars>>

allButIf == <<rangeVars, wrapVars, callVars, tmplVars, cloneVars, concVars, execVars, regVars, panicVars, stackVars, targVars, ctxVars, werrVars, nestVars, exprVars, yieldVars>>

allButConc == <<rangeVars, wrapVars, callVars, tmplVars, cloneVars, ifVars, execVars, regVars, panicVars, stackVars, targVars, ctxVars, werrVars, nestVars, exprVars, yieldVars>>

allButExec == <<rangeVars, wrapVars, callVars, tmplVars, cloneVars, ifVars, concVars, regVars, panicVars, stackVars, targVars, ctxVars, werrVars, nestVars, exprVars, yieldVars>>

InitRange == RangeInit /\ WrapIdle /\ CallIdle /\ TmplIdle /\ CloneIdle /\ IfIdle /\ ConcIdle /\ ExecIdle
    /\ RegIdle
    /\ PanicIdle
    /\ StackIdle
    /\ TargIdle
    /\ CtxIdle
    /\ WerrIdle
    /\ NestIdle
    /\ ExprIdle
    /\ YieldIdle

NextRange ==
    \/ WalkRangeBegin /\ UNCHANGED allButRange
    \/ IterSlice /\ UNCHANGED allButRange
    \/ IterMap /\ UNCHANGED allButRange
    \/ IterChan /\ UNCHANGED allButRange
    \/ IterChanAhead /\ UNCHANGED allButRange
    \/ IterInt /\ UNCHANGED allButRange
    \/ IterIterator /\ UNCHANGED allButRange
    \/ WalkRangeReturn /\ UNCHANGED allButRange

SpecRange == InitRange /\ [][NextRange]_vars

InitWrap == WrapInit /\ RangeIdle /\ CallIdle /\ TmplIdle /\ CloneIdle /\ IfIdle /\ ConcIdle /\ ExecIdle
    /\ RegIdle
    /\ PanicIdle
    /\ StackIdle
    /\ TargIdle
    /\ CtxIdle
    /\ WerrIdle
    /\ NestIdle
    /\ ExprIdle
    /\ YieldIdle

NextWrap ==
    \/ WalkWrapBegin /\ UNCHANGED allButWrap
    \/ BodyWrite /\ UNCHANGED allButWrap
    \/ WalkWrapEnd /\ UNCHANGED allButWrap

SpecWrap == InitWrap /\ [][NextWrap]_vars

InitCall == CallInit /\ RangeIdle /\ WrapIdle /\ TmplIdle /\ CloneIdle /\ IfIdle /\ ConcIdle /\ ExecIdle
    /\ RegIdle
    /\ PanicIdle
    /\ StackIdle
    /\ TargIdle
    /\ CtxIdle
    /\ WerrIdle
    /\ NestIdle
    /\ ExprIdle
    /\ YieldIdle

NextCall ==
    \/ EvalCallCheck /\ UNCHANGED allButCall
    \/ EvalCallBuild /\ UNCHANGED allButCall
    \/ FunCall /\ UNCHANGED allButCall

SpecCall == InitCall /\ [][NextCall]_vars

InitTmpl == TmplInit /\ RangeIdle /\ WrapIdle /\ CallIdle /\ CloneIdle /\ IfIdle /\ ConcIdle /\ ExecIdle
    /\ RegIdle
    /\ PanicIdle
    /\ StackIdle
    /\ TargIdle
    /\ CtxIdle
    /\ WerrIdle
    /\ NestIdle
    /\ ExprIdle
    /\ YieldIdle

NextTmpl ==
    \/ WalkText /\ UNCHANGED allButTmpl
    \/ WalkTemplate /\ UNCHANGED allButTmpl
    \/ WalkTemplateReturn /\ UNCHANGED allButTmpl

\* the walk is one synchronous recursion: while a step is possible, the
\* interpreter takes it
SpecTmpl == InitTmpl /\ [][NextTmpl]_vars /\ WF_vars(NextTmpl)

InitClone == CloneInit /\ RangeIdle /\ WrapIdle /\ CallIdle /\ TmplIdle /\ IfIdle /\ ConcIdle /\ ExecIdle
    /\ RegIdle
    /\ PanicIdle
    /\ StackIdle
    /\ TargIdle
    /\ CtxIdle
    /\ WerrIdle
    /\ NestIdle
    /\ ExprIdle
    /\ YieldIdle

NextClone ==
    \/ TemplateNew /\ UNCHANGED allButClone
    \/ AddParseTree /\ UNCHANGED allButClone
    \/ Clone /\ UNCHANGED allButClone

SpecClone == InitClone /\ [][NextClone]_vars

\* New and AddParseTree alone: one name space
NextNs ==
    \/ TemplateNew /\ Len(kobjs') <= MaxNsObjs /\ UNCHANGED allButClone
    \/ AddParseTree /\ Len(kobjs') <= MaxNsObjs /\ UNCHANGED allButClone

SpecNs == InitClone /\ [][NextNs]_vars

InitIf == IfInit /\ RangeIdle /\ WrapIdle /\ CallIdle /\ TmplIdle /\ CloneIdle /\ ConcIdle /\ ExecIdle
    /\ RegIdle
    /\ PanicIdle
    /\ StackIdle
    /\ TargIdle
    /\ CtxIdle
    /\ WerrIdle
    /\ NestIdle
    /\ ExprIdle
    /\ YieldIdle

NextIf ==
    \/ IfEvalTruth /\ UNCHANGED allButIf
    \/ IfWalkBranch /\ UNCHANGED allButIf

SpecIf == InitIf /\ [][NextIf]_vars

InitConc ==
    ConcInit /\ RangeIdle /\ WrapIdle /\ CallIdle /\ TmplIdle /\ CloneIdle /\ IfIdle
    /\ ExecIdle
    /\ RegIdle
    /\ PanicIdle
    /\ StackIdle
    /\ TargIdle
    /\ CtxIdle
    /\ WerrIdle
    /\ NestIdle
    /\ ExprIdle
    /\ YieldIdle

\* the renders run in any interleaving of their steps
NextConc ==
    \/ \E r \in Renders : ConcExecute(r) /\ UNCHANGED allButConc
    \/ \E r \in Renders : ConcReadArgs(r) /\ UNCHANGED allButConc
    \/ \E r \in Renders : ConcTruncate(r) /\ UNCHANGED allButConc
    \/ \E r \in Renders : ConcEvalPipeline(r) /\ UNCHANGED allButConc
    \/ \E r \in Renders : ConcRestore(r) /\ UNCHANGED allButConc
    \/ \E r \in Renders : ConcWalkCallee(r) /\ UNCHANGED allButConc

SpecConc == InitConc /\ [][NextConc]_vars

\* render calls one after the other: the second starts when the first has
\* returned
InTurn(r) == r = 1 \/ xpc[1] = "done"

NextSeq ==
    \/ \E r \in Renders : InTurn(r) /\ ConcExecute(r) /\ UNCHANGED allButConc
    \/ \E r \in Renders : InTurn(r) /\ ConcReadArgs(r) /\ UNCHANGED allButConc
    \/ \E r \in Renders : InTurn(r) /\ ConcTruncate(r) /\ UNCHANGED allButConc
    \/ \E r \in Renders : InTurn(r) /\ ConcEvalPipeline(r) /\ UNCHANGED allButConc
    \/ \E r \in Renders : InTurn(r) /\ ConcRestore(r) /\ UNCHANGED allButConc
    \/ \E r \in Renders : InTurn(r) /\ ConcWalkCallee(r) /\ UNCHANGED allButConc

SpecSeq == InitConc /\ [][NextSeq]_vars

InitExec ==
    ExecInit /\ RangeIdle /\ WrapIdle /\ CallIdle /\ TmplIdle /\ CloneIdle /\ IfIdle
    /\ ConcIdle
    /\ RegIdle
    /\ PanicIdle
    /\ StackIdle
    /\ TargIdle
    /\ CtxIdle
    /\ WerrIdle
    /\ NestIdle
    /\ ExprIdle
    /\ YieldIdle

NextExec ==
    \/ ExecuteBegin /\ UNCHANGED allButExec
    \/ ExecuteExtra /\ UNCHANGED allButExec
    \/ ExecuteRun /\ UNCHANGED allButExec

SpecExec == InitExec /\ [][NextExec]_vars

allButReg == <<rangeVars, wrapVars, callVars, tmplVars, cloneVars, ifVars, concVars, execVars, panicVars, stackVars, targVars, ctxVars, werrVars, nestVars, exprVars, yieldVars>>

InitReg ==
    RegInit /\ RangeIdle /\ WrapIdle /\ CallIdle /\ TmplIdle /\ CloneIdle /\ IfIdle
    /\ ConcIdle /\ ExecIdle
    /\ PanicIdle
    /\ StackIdle
    /\ TargIdle
    /\ CtxIdle
    /\ WerrIdle
    /\ NestIdle
    /\ ExprIdle
    /\ YieldIdle

NextReg ==
    \/ FuncValuesSet /\ UNCHANGED allButReg
    \/ CheckNameCall /\ UNCHANGED allButReg
    \/ RegEvalCall /\ UNCHANGED allButReg

SpecReg == InitReg /\ [][NextReg]_vars

allButPanic == <<rangeVars, wrapVars, callVars, tmplVars, cloneVars, ifVars, concVars, execVars, regVars, stackVars, targVars, ctxVars, werrVars, nestVars, exprVars, yieldVars>>

InitPanic ==
    PanicInit /\ RangeIdle /\ WrapIdle /\ CallIdle /\ TmplIdle /\ CloneIdle /\ IfIdle
    /\ ConcIdle /\ ExecIdle /\ RegIdle
    /\ StackIdle
    /\ TargIdle
    /\ CtxIdle
    /\ WerrIdle
    /\ NestIdle
    /\ ExprIdle
    /\ YieldIdle

NextPanic ==
    \/ WalkWrite /\ UNCHANGED allButPanic
    \/ WalkCallExit /\ UNCHANGED allButPanic
    \/ WalkCallFailing /\ UNCHANGED allButPanic
    \/ WalkCallback /\ UNCHANGED allButPanic
    \/ WalkYield /\ UNCHANGED allButPanic
    \/ WalkEnd /\ UNCHANGED allButPanic
    \/ UnwindFunCall /\ UNCHANGED allButPanic
    \/ UnwindHandler /\ UNCHANGED allButPanic
    \/ UnwindExecute /\ UNCHANGED allButPanic

SpecPanic == InitPanic /\ [][NextPanic]_vars

allButStack == <<rangeVars, wrapVars, callVars, tmplVars, cloneVars, ifVars, concVars, execVars, regVars, panicVars, targVars, ctxVars, werrVars, nestVars, exprVars, yieldVars>>

InitStack ==
    StackInit /\ RangeIdle /\ WrapIdle /\ CallIdle /\ TmplIdle /\ CloneIdle /\ IfIdle
    /\ ConcIdle /\ ExecIdle /\ RegIdle /\ PanicIdle
    /\ TargIdle
    /\ CtxIdle
    /\ WerrIdle
    /\ NestIdle
    /\ ExprIdle
    /\ YieldIdle

NextStack ==
    \/ StackWalkTemplate /\ UNCHANGED allButStack
    \/ CalleePush /\ UNCHANGED allButStack
    \/ CalleePop /\ UNCHANGED allButStack
    \/ CalleeSetVar /\ UNCHANGED allButStack
    \/ CalleeReturn /\ UNCHANGED allButStack

SpecStack == InitStack /\ [][NextStack]_vars

allButTarg == <<rangeVars, wrapVars, callVars, tmplVars, cloneVars, ifVars, concVars, execVars, regVars, panicVars, stackVars, ctxVars, werrVars, nestVars, exprVars, yieldVars>>

InitTarg ==
    TargInit /\ RangeIdle /\ WrapIdle /\ CallIdle /\ TmplIdle /\ CloneIdle /\ IfIdle
    /\ ConcIdle /\ ExecIdle /\ RegIdle /\ PanicIdle /\ StackIdle
    /\ CtxIdle
    /\ WerrIdle
    /\ NestIdle
    /\ ExprIdle
    /\ YieldIdle

NextTarg ==
    \/ TemplateEvalPipeline /\ UNCHANGED allButTarg
    \/ TemplateCheckArgs /\ UNCHANGED allButTarg
    \/ TemplateBindArg /\ UNCHANGED allButTarg
    \/ TemplateWalkRoot /\ UNCHANGED allButTarg

SpecTarg == InitTarg /\ [][NextTarg]_vars

allButCtx == <<rangeVars, wrapVars, callVars, tmplVars, cloneVars, ifVars, concVars, execVars, regVars, panicVars, stackVars, targVars, werrVars, nestVars, exprVars, yieldVars>>

InitCtx ==
    CtxInit /\ RangeIdle /\ WrapIdle /\ CallIdle /\ TmplIdle /\ CloneIdle /\ IfIdle
    /\ ConcIdle /\ ExecIdle /\ RegIdle /\ PanicIdle /\ StackIdle /\ TargIdle
    /\ WerrIdle
    /\ NestIdle
    /\ ExprIdle
    /\ YieldIdle

NextCtx ==
    \/ EvalFunction /\ UNCHANGED allButCtx

SpecCtx == InitCtx /\ [][NextCtx]_vars

allButWerr == <<rangeVars, wrapVars, callVars, tmplVars, cloneVars, ifVars, concVars, execVars, regVars, panicVars, stackVars, targVars, ctxVars, nestVars, exprVars, yieldVars>>

InitWerr ==
    WerrInit /\ RangeIdle /\ WrapIdle /\ CallIdle /\ TmplIdle /\ CloneIdle /\ IfIdle
    /\ ConcIdle /\ ExecIdle /\ RegIdle /\ PanicIdle /\ StackIdle /\ TargIdle /\ CtxIdle
    /\ NestIdle
    /\ ExprIdle
    /\ YieldIdle

NextWerr ==
    \/ WriteError /\ UNCHANGED allButWerr
    \/ NotWriteError /\ UNCHANGED allButWerr
    \/ ProgramNewChild /\ UNCHANGED allButWerr
    \/ WerrExecute /\ UNCHANGED allButWerr

SpecWerr == InitWerr /\ [][NextWerr]_vars

allButNest == <<rangeVars, wrapVars, callVars, tmplVars, cloneVars, ifVars, concVars, execVars, regVars, panicVars, stackVars, targVars, ctxVars, werrVars, exprVars, yieldVars>>

InitNest ==
    NestInit /\ RangeIdle /\ WrapIdle /\ CallIdle /\ TmplIdle /\ CloneIdle /\ IfIdle
    /\ ConcIdle /\ ExecIdle /\ RegIdle /\ PanicIdle /\ StackIdle /\ TargIdle /\ CtxIdle
    /\ WerrIdle
    /\ ExprIdle
    /\ YieldIdle

NextNest ==
    \/ Declare /\ UNCHANGED allButNest
    \/ EnterNode /\ UNCHANGED allButNest
    \/ BodyStart /\ UNCHANGED allButNest
    \/ BodyEnd /\ UNCHANGED allButNest
    \/ ExitNode /\ UNCHANGED allButNest

SpecNest == InitNest /\ [][NextNest]_vars

allButExpr == <<rangeVars, wrapVars, callVars, tmplVars, cloneVars, ifVars, concVars, execVars, regVars, panicVars, stackVars, targVars, ctxVars, werrVars, nestVars, yieldVars>>

InitExpr ==
    ExprInit /\ RangeIdle /\ WrapIdle /\ CallIdle /\ TmplIdle /\ CloneIdle /\ IfIdle
    /\ ConcIdle /\ ExecIdle /\ RegIdle /\ PanicIdle /\ StackIdle /\ TargIdle /\ CtxIdle
    /\ WerrIdle /\ NestIdle
    /\ YieldIdle

NextExpr ==
    \/ EvalExprSum /\ UNCHANGED allButExpr

SpecExpr == InitExpr /\ [][NextExpr]_vars

allButYield == <<rangeVars, wrapVars, callVars, tmplVars, cloneVars, ifVars, concVars, execVars, regVars, panicVars, stackVars, targVars, ctxVars, werrVars, nestVars, exprVars>>

InitYield ==
    YieldInit /\ RangeIdle /\ WrapIdle /\ CallIdle /\ TmplIdle /\ CloneIdle /\ IfIdle
    /\ ConcIdle /\ ExecIdle /\ RegIdle /\ PanicIdle /\ StackIdle /\ TargIdle /\ CtxIdle
    /\ WerrIdle /\ NestIdle /\ ExprIdle

NextYield ==
    \/ YieldWalkText /\ UNCHANGED allButYield
    \/ YieldWalkTemplate /\ UNCHANGED allButYield
    \/ TemplateYieldName /\ UNCHANGED allButYield
    \/ YieldWalkReturn /\ UNCHANGED allButYield

SpecYield == InitYield /\ [][NextYield]_vars

-----------------------------------------------------------------------------
(* Properties of walkRange *)

IsMapRange == rval.kind = "map"

\* the keys of the entries r.List was walked for, in the order of the walks
VisitedKeys == [i \in 1..Len(rbody) |-> rbody[i].elem.at]

\* the order the range is to follow: numbers by value, strings (also when
\* held in an interface-typed key) lexicographically
KeyBefore(a, b) ==
    IF a.k \in {"string", "iface"} THEN StrLess(a.v, b.v) ELSE a.v < b.v

Ascending(s) == \A i, j \in 1..Len(s) : i < j => KeyBefore(s[i], s[j])

RangeReturned == rpc \in {"ret", "done"}

OncePerEntry ==
    RangeReturned => /\ Len(VisitedKeys) = Cardinality(rval.keys)
                     /\ Range(VisitedKeys) = rval.keys

SortableKeyKinds == {"int", "uint", "float", "string"}

IterableKinds == {"slice", "map", "chan", "int", "struct"}

\* C2: when walkRange is over, the else-list was walked (once) if it exists
\* and the body was walked for no element, and was not walked if the body
\* was walked for at least one element.
C2_ElseIffEmpty ==
    (rpc = "done" /\ rval.kind \in IterableKinds) =>
        /\ (Len(rbody) = 0 /\ rnode.hasElse) => relse = 1
        /\ Len(rbody) > 0 => relse = 0

HasLastFlag == rfn \in {"ElemIndexLast", "State"}

\* the number of elements the ranged value yields
Total(val) ==
    CASE val.kind = "map" -> Cardinality(val.keys)
      [] val.kind \in {"slice", "chan"} -> Len(val.items)
      [] OTHER -> 0

\* C3: with three variables or a pointer-style variable, over a slice, a map
\* or a channel, the is-last flag of a body walk is true exactly on the walk
\* of the final element; a channel's elements are bound once each, in the
\* order they were received.
C3_LastOnlyOnFinal ==
    (HasLastFlag /\ rval.kind \in {"slice", "map", "chan"}) =>
        /\ \A i \in 1..Len(rbody) : rbody[i].last = (i = Total(rval))
        /\ RangeReturned => Len(rbody) = Total(rval)
        /\ rval.kind = "chan" =>
              [i \in 1..Len(rbody) |-> rbody[i].elem] = SubSeq(rval.items, 1, Len(rbody))

\* a channel of two elements was drained by a three-variable range
C3_Witness ==
    /\ rpc = "done"
    /\ rfn = "ElemIndexLast"
    /\ rval.kind = "chan"
    /\ Len(rval.items) = 2
    /\ Len(rbody) = 2
    /\ ~rbody[1].last /\ rbody[2].last


-----------------------------------------------------------------------------
(* Properties of walkWrap *)

\* the four bytes that count as white space: space, tab, CR, LF
WhiteSpace == {32, 9, 13, 10}

RECURSIVE Flatten(_)
Flatten(ss) == IF Len(ss) = 0 THEN <<>> ELSE Head(ss) \o Flatten(Tail(ss))

\* the bytes the body wrote so far, over all its Write calls
BodyWritten == Flatten(SubSeq(wscript, 1, wk))

\* the body of the Wrap node writes white space only, or nothing
OnlySpaceBody == \A i \in 1..Len(Flatten(wscript)) : Flatten(wscript)[i] \in WhiteSpace

WrapDone == wpc = "done"

\* C4: when the body of a Wrap node writes only white space or nothing, in
\* any number of Write calls, w.begin never runs (so BeginList is never
\* walked), AfterList is never walked, no byte of the body reaches the real
\* writer, and ElseList, if there is one, is walked once with State.wr set
\* back to the real writer, which receives its output.
C4_SpaceBodyTakesElse ==
    OnlySpaceBody =>
        /\ wbegins = <<>>
        /\ wafter = 0
        /\ ~WrapDone => wout = <<>>
        /\ WrapDone =>
              /\ wr = "real"
              /\ welse = (IF wnode.hasElse THEN 1 ELSE 0)
              /\ wout = (IF wnode.hasElse THEN ElseText ELSE <<>>)

\* a walk is over whose body made two Write calls of white space, one of
\* them with a line feed, and whose ElseList was walked
C4_Witness ==
    /\ WrapDone
    /\ OnlySpaceBody
    /\ Len(wscript) = 2
    /\ Len(wscript[1]) > 0
    /\ 10 \in Range(wscript[2])
    /\ wnode.hasElse
    /\ welse = 1

\* C5: when the body of a Wrap node writes at least one byte that is not
\* white space, w.begin runs exactly once during the walk, and at the time
\* it runs the real writer has received nothing of the body (neither the
\* byte nor the white space buffered before it); without strip, what the
\* real writer receives after w.begin is exactly what the body wrote, in
\* order.
C5_BeginOnceBeforeBody ==
    ~OnlySpaceBody =>
        /\ Len(wbegins) <= 1
        /\ \A i \in 1..Len(wbegins) : wbegins[i] = 0
        /\ wout # <<>> => Len(wbegins) = 1
        /\ WrapDone => Len(wbegins) = 1
        /\ (~wnode.strip /\ Len(wbegins) = 1) =>
              wout = BeginWrites(wnode) \o BodyWritten
                     \o (IF WrapDone /\ wnode.hasAfter THEN AfterText ELSE <<>>)

\* a walk without strip is over whose body wrote white space first, then a
\* byte that is not white space and more after it, and BeginList was walked
C5_Witness ==
    /\ WrapDone
    /\ ~wnode.strip
    /\ wnode.hasBegin
    /\ Len(wscript) = 2
    /\ wscript[1] = <<32>>
    /\ wscript[2] = <<10, 120>>
    /\ Len(wbegins) = 1


-----------------------------------------------------------------------------
(* Properties of evalCall *)

\* the parameters the template is to supply: all but a leading *State,
\* which the interpreter supplies
OwnParams(typ) ==
    IF NumIn(typ) > 0 /\ typ.params[1] = "state" THEN NumIn(typ) - 1 ELSE NumIn(typ)

\* the arguments the call supplies, the piped value among them
Supplied == cnargs + (IF cfinal THEN 1 ELSE 0)

\* the signature accepts the number of arguments supplied
AcceptsCount ==
    IF cfun.variadic THEN Supplied >= OwnParams(cfun) - 1
    ELSE Supplied = OwnParams(cfun)

CallDone == cpc = "done"

\* C6: a call with a number of arguments the signature does not accept
\* (not variadic: other than the number of parameters; variadic: fewer than
\* the fixed parameters) ends with the error "wrong number of args" that
\* names the function, the number expected (the parameters, counted with or
\* without the *State the interpreter supplies) and the number supplied, and
\* the callable is never run.
C6_WrongCountNeverInvoked ==
    (CallDone /\ ~AcceptsCount) =>
        /\ cinvoked = 0
        /\ cerr.kind = "wrong number of args"
        /\ cerr.name = cfun.name
        /\ cerr.got = Supplied
        /\ cerr.want \in
              (IF cfun.variadic THEN {NumIn(cfun) - 1, OwnParams(cfun) - 1}
               ELSE {NumIn(cfun), OwnParams(cfun)})


-----------------------------------------------------------------------------
(* Properties of walkTemplate *)

TmplEnded == tpc \in {"done", "error"}

\* each nested walk runs one deeper than the walk that called it, and none
\* deeper than the maximum
DepthPlusOne ==
    /\ \A i \in 1..Len(tstack) : tstack[i].depth = i - 1
    /\ \A i \in 1..Len(tstack) : tstack[i].depth <= maxExecDepth

\* a call of a defined template made at the maximum depth ends the render
\* with the error "exceeded maximum template depth"; the callee is not walked
RefusedAtMax ==
    (/\ tpc = "walk"
     /\ AtNode
     /\ CurrentNode.type = "template"
     /\ CurrentNode.name \in DOMAIN tdefs
     /\ TopState.depth = maxExecDepth)
    => /\ tpc' = "error"
       /\ terr' = [kind |-> "exceeded maximum template depth", depth |-> maxExecDepth]
       /\ tstack' = tstack

\* the template calls form a cycle: A calls B and B calls A, or A calls A
CallsTo(n, m) ==
    \E i \in 1..Len(tdefs[n].body) :
        /\ tdefs[n].body[i].type = "template"
        /\ tdefs[n].body[i].name = m

\* C7: a render with template calls, a cycle of calls among them (A calls B
\* calls A, without end), terminates: each nested call runs at the depth of
\* its caller plus one, and the call made at the maximum depth fails with
\* the error "exceeded maximum template depth" and does not walk the callee.
C7_CycleEndsAtMaxDepth ==
    /\ []DepthPlusOne
    /\ [][RefusedAtMax]_vars
    /\ <>TmplEnded

\* A calls B and B calls A, with the arguments they declare; the render
\* went down to the maximum depth and ended there with the error
C7_Witness ==
    /\ CallsTo("A", "B")
    /\ CallsTo("B", "A")
    /\ Len(tstack) = maxExecDepth + 1
    /\ tpc = "error"
    /\ terr.kind = "exceeded maximum template depth"


-----------------------------------------------------------------------------
(* Properties of Clone *)

\* what Lookup returns on the template t, name by name, as the body of the
\* template found: "none" when Lookup returns nil
Bodies(objs, commons, t) ==
    [n \in NsNames |->
        IF Lookup(objs, commons, t, n) = NoTemplate THEN "none"
        ELSE objs[Lookup(objs, commons, t, n)].tree]

\* the step is a call of Clone
CloneCalled == kop'.op = "Clone"

\* right after the Clone, the clone resolves every name the original
\* resolves, to a template with the same body
SameBodies ==
    \A n \in NsNames :
        Lookup(kobjs', kcommons', kop'.on, n) # NoTemplate =>
            /\ Lookup(kobjs', kcommons', kop'.made, n) # NoTemplate
            /\ Bodies(kobjs', kcommons', kop'.made)[n] = Bodies(kobjs', kcommons', kop'.on)[n]

\* a call of AddParseTree changes what Lookup returns only on the templates
\* of the common it was called on
Independent ==
    kop'.op = "AddParseTree" =>
        \A u \in 1..Len(kobjs) :
            kobjs[u].common # kobjs[kop'.on].common =>
                Bodies(kobjs', kcommons', u) = Bodies(kobjs, kcommons, u)

\* C8: after Clone, the clone resolves every name the original resolved to
\* a template with the same body, and the two name spaces are independent:
\* adding or replacing a template in the clone never changes what Lookup
\* returns on the original, and adding one to the original never changes
\* what Lookup returns on the clone.
C8_CloneSameAndIndependent == [][(CloneCalled => SameBodies) /\ Independent]_vars


-----------------------------------------------------------------------------
(* Properties of walkIfOrWith *)

\* the value behind the pointers and interfaces around it; a nil pointer or
\* interface stays
RECURSIVE Behind(_)
Behind(v) ==
    IF v.kind \in {"ptr", "interface"} /\ ~v.isNil THEN Behind(v.elem) ELSE v

\* truthy: boolean true, a number other than zero, a string, sequence or map
\* that is not empty, a channel or function that is not nil, a pointer that
\* is not nil to a truthy value, a value+presence pair whose flag is true, a
\* struct whose IsZero is false or that has no IsZero
Truthy(v) ==
    LET b == Behind(v) IN
       \/ b.kind = "bool" /\ b.b
       \/ b.kind \in NumKinds /\ b.n # 0
       \/ b.kind \in LenKinds /\ b.len # 0
       \/ b.kind \in NilKinds /\ ~b.isNil
       \/ b.kind = "struct" /\ b.is = "ResultOk" /\ b.ok
       \/ b.kind = "struct" /\ b.is = "IsZeroer" /\ ~b.zero
       \/ b.kind = "struct" /\ b.is = "plain"

\* the value is of a kind that has a truth value: any but an unsafe pointer
HasTruthValue(v) == Behind(v).kind # "unsafeptr"

IfDone == ipc = "done" /\ inode.typ = "if"

\* the list was walked and nothing else, or elseList if there is one and
\* nothing else
WalkedAsTruth(truth) ==
    /\ ierr = NoError
    /\ ithen = (IF truth THEN 1 ELSE 0)
    /\ ielse = (IF ~truth /\ inode.hasElse THEN 1 ELSE 0)

\* C9 as stated: an If node walks its then-list exactly when the value of
\* its pipeline is truthy, and otherwise walks its else-list if there is
\* one and writes nothing if there is none, whatever the value.
C9_IfFollowsTruth == IfDone => WalkedAsTruth(Truthy(ival))

\* C9, amended: the same for every value of a kind that has a truth value;
\* for a value that has none the walk ends with the error "if/with can't
\* use" and neither list is walked.
C9_IfFollowsTruthIfAny ==
    IfDone =>
        IF HasTruthValue(ival) THEN WalkedAsTruth(Truthy(ival))
        ELSE /\ ierr = [kind |-> "if/with can't use"]
             /\ ithen = 0
             /\ ielse = 0

\* an If node with an else-list got a pointer to a value+presence pair whose
\* flag is false, and walked the else-list
C9_Witness ==
    /\ IfDone
    /\ inode.hasElse
    /\ ival.kind = "ptr"
    /\ ~ival.isNil
    /\ ival.elem = [kind |-> "struct", is |-> "ResultOk", ok |-> FALSE]
    /\ ielse = 1
    /\ ithen = 0


-----------------------------------------------------------------------------
(* Properties of renders at the same time *)

\* how the render r ends when it runs alone on the template as parsed: its
\* pipeline is evaluated with the first of the Args only, and all the
\* others are handed to the callee
AloneEnd(r) ==
    IF xfull = 0 THEN RenderEnd(0, 0, xwant)
    ELSE IF xdata[r] = "bad" THEN [kind |-> "pipeline failed"]
    ELSE RenderEnd(1, xfull - 1, xwant)

\* C10: two renders of one parsed template at the same time, on States and
\* writers of their own and one Template name space and one Executor, never
\* write to a structure they share (parse tree, fields of the Executor,
\* function layers), and each ends as it does when run alone.
C10_RendersShareNothing ==
    /\ xwrites = {}
    /\ \A r \in Renders : xpc[r] = "done" => xres[r] = AloneEnd(r)


-----------------------------------------------------------------------------
(* Properties of renders one after the other *)

\* C11: the output and error of a render call depend only on the template,
\* the data and the functions: a render ends as a render of the same inputs
\* on the template as parsed ends, whatever render ran on the template
\* before it, one that ended in an error included.
C11_EndsAsOnFreshTemplate ==
    \A r \in Renders : xpc[r] = "done" => xres[r] = AloneEnd(r)


-----------------------------------------------------------------------------
(* Properties of Execute *)

\* the Executors there were before the call: the receiver is one of them,
\* and its parent chain is among them
OldExecutors == {1, 2}

\* C12: Execute with extra function maps or values registers them on a new
\* child only: after the call, failed or not (and at every point of it),
\* the receiver and every Executor of its parent chain resolve every name
\* with FindFunc as they did before the call.
C12_ReceiverResolvesAsBefore ==
    \A e \in OldExecutors : \A n \in FnNames :
        FindFunc(eexecs, emaps, e, n) = ebefore[e][n]

\* a call has returned that gave a function for f other than the one the
\* receiver resolves f to, and ee resolves f to the one given
C12_Witness ==
    /\ epc = "returned"
    /\ eee # ethis
    /\ FindFunc(eexecs, emaps, ethis, "f") = 1
    /\ FindFunc(eexecs, emaps, eee, "f") = 2


\* C18: a function given to a render call as an extra argument is the one
\* GetFunc finds for its name in that render, whatever else has a function
\* of that name.
C18_OverrideIsInvoked ==
    epc = "returned" /\ eerr = "none" =>
        \A n \in FnNames : eover[n] => ecalled[n] = OverrideFunc

-----------------------------------------------------------------------------
(* Properties of registering functions *)

\* a legal identifier: not empty, the first rune a letter or '_', every rune
\* a letter, a digit or '_'
LegalIdentifier(name) ==
    /\ Len(name) > 0
    /\ name[1] \in {"letter", "_"}
    /\ \A i \in 1..Len(name) : name[i] \in {"letter", "digit", "_"}

\* C13: Set (its checks not switched off) with a name that is no legal
\* identifier fails and installs nothing, a legal name (with a good
\* function) is accepted, and CheckName returns an error for exactly the
\* names that are no legal identifier.
C13_IllegalNameRefused ==
    /\ gpc = "Set" /\ checkArg(gcheck) /\ ~LegalIdentifier(gname)
          => gerr # "nil" /\ gvals = {}
    /\ gpc = "Set" /\ LegalIdentifier(gname) /\ CheckFuncValue(gname, gfun) = "nil"
          => gerr = "nil" /\ gvals = {[name |-> gname, f |-> gfun]}
    /\ gpc = "CheckName" => (gerr # "nil" <=> ~LegalIdentifier(gname))

\* a function with two results, the second one a bool
BoolSecond == [kind |-> "func", numOut |-> 2, out1 |-> "bool"]

\* C19: a function with two results, the second a bool, is accepted by Set
\* and installed, and a call of it from a template gives a ResultOk, the
\* pair of value and presence.
C19_BoolSecondAccepted ==
    gfun = BoolSecond /\ LegalIdentifier(gname) /\ checkArg(gcheck) =>
        /\ gpc = "Set" => gerr = "nil" /\ [name |-> gname, f |-> gfun] \in gvals
        /\ gpc = "evalCall" => gerr = "nil" /\ gres = "ResultOk"

-----------------------------------------------------------------------------
(* Properties of panics and their recovery *)

\* C14: when the destination writer fails while a Text node or a printed
\* value is written, the outermost render call returns the error of the
\* writer itself: no execution error, nothing with the template path put in
\* front, no panic.
C14_WriterErrorReturnedAsIs ==
    pwfail /\ pret # Running => pret = Returned("writer")

\* C15: a fatal that is panicking stays the panicking value at every
\* recovery boundary it leaves, until it leaves the outermost render call as
\* a panic; it is never turned into a returned error or dropped.
C15_FatalRaisedAgain ==
    [][IsFatal(ppanic) => (IsFatal(ppanic') \/ pret' = Panicked(Panic("fatal")))]_vars

\* C16: after the exit builtin fired, the render call it fired in walks no
\* further node, and that render call (nested ones too) returns nil.
C16_ExitEndsRenderWithNil ==
    pexit # 0 => ~pafter /\ pexitEnd \in {"running", "nil"}

-----------------------------------------------------------------------------
(* Properties of one name space *)

\* the name resolves to a template whose body is not empty
HasBody(objs, commons, name) ==
    LET o == commons[1][name] IN
       /\ o # NoTemplate
       /\ objs[o].tree # NilTree
       /\ ~IsEmptyTree(objs[o].tree)

-----------------------------------------------------------------------------
(* Properties of the variable stacks of a template call *)

\* C20: when the callee's walk begins its stack is the first
\* InheritedVarsLen variables of the caller's, then $ with the callee's dot,
\* then the declared arguments; and whatever the callee pushes, pops or
\* sets, the caller's stack is, during the call and after it, what it was
\* when the call was made.
C20_CalleeStackOwn ==
    /\ vpc \in {"callee", "returned"} =>
          ventry = SubSeq(vsnap, 1, vn) \o <<Binding("$", vdot)>>
                   \o [i \in 1..vdecl |-> Binding("arg", vpassed[i])]
    /\ Visible(vheap, vcaller) = vsnap

\* the call has returned after the callee pushed a variable and changed an
\* inherited one, with fewer variables inherited than the caller has
C20_Witness ==
    /\ vpc = "returned"
    /\ vpushes > 0
    /\ vn > 0
    /\ vn < vcaller.len
    /\ Visible(vheap, vcallee)[1] # vsnap[1]

-----------------------------------------------------------------------------
(* Properties of the arguments of a template call *)

\* C21: when the callee's body is walked, each declared argument holds the
\* value of its expression evaluated against the caller's dot.
C21_ArgsAgainstCallerDot ==
    apc = "body" =>
       \A i \in 1..Len(avars) : avars[i] = evalCommand(adot, aargs[i])

\* C22: a call whose number of arguments differs from the number the callee
\* declares, fewer or more, ends with the bad template args error, and the
\* callee's body is not walked.
C22_ArityMismatchIsError ==
    (Len(aargs) # adecl /\ apc \notin {"call", "check", "bind"}
        /\ aerr # "nil pointer evaluating")
       => (apc = "failed" /\ aerr = "bad template args")

-----------------------------------------------------------------------------
(* Properties of walkRange on nil values *)

\* the zero Value (a nil interface), a map without keys (a nil map) and a
\* nil pointer
NilRangeVals == {InvalidVal, [kind |-> "map", keys |-> {}], NilPtrVal}

\* C23: ranging over an invalid or nil value raises no error and no panic,
\* walks the body zero times and then the else-list if there is one,
\* whatever variables the node declares.
C23_NilRangesAsEmpty ==
    rval \in NilRangeVals =>
       /\ rpc \notin {"error", "panic"}
       /\ rpc = "done" => (rbody = <<>> /\ relse = IF rnode.hasElse THEN 1 ELSE 0)

-----------------------------------------------------------------------------
(* Properties of context factories *)

\* C24: within one render the factory of a registered name is invoked once
\* when the name is called at all, however often it is called, and the
\* resolved callable once per call.
C24_FactoryOncePerRender ==
    \A n \in DOMAIN qfuncs :
       qfuncs[n].ctx => qfactory[n] = IF qinvoked[n] > 0 THEN 1 ELSE 0

-----------------------------------------------------------------------------
(* Properties of the write-error setting *)

\* the setting of the nearest executor of the chain that has one: 0 if none
RECURSIVE NearestSetting(_, _)
NearestSetting(execs, p) ==
    IF p = 0 THEN 0
    ELSE IF execs[p].writeError # 0 THEN execs[p].writeError
    ELSE NearestSetting(execs, execs[p].parent)

-----------------------------------------------------------------------------
(* Properties of evalCall with a piped value *)

\* C26: a function whose first parameter is the State, called as a later
\* command of a pipeline with a number of arguments that fits, is invoked
\* with the State, the explicit arguments and then the piped value, whether
\* it is variadic or not.
C26_StateFuncTakesPipedValue ==
    (/\ cpc = "done"
     /\ cfinal
     /\ cfun.name # "call"
     /\ NumIn(cfun) > 0
     /\ cfun.params[1] = "state"
     /\ \A k \in 2..NumIn(cfun) : Assignable("int", cfun.params[k])
     /\ IF cfun.variadic THEN cnargs + 1 >= NumIn(cfun) - 2
        ELSE cnargs + 1 = NumIn(cfun) - 1)
    => /\ cerr = NoError
       /\ cinvoked = 1
       /\ cargv = <<"state">> \o [i \in 1..cnargs |-> "int"] \o <<"int">>

-----------------------------------------------------------------------------
(* Properties of the variable stack across nested nodes *)

\* a step that ends the walk of a node
NodeExits == Len(nframes') < Len(nframes)

\* a step that starts an iteration of the innermost range
IterationStarts ==
    /\ Len(nframes) > 0
    /\ Len(nframes') = Len(nframes)
    /\ nframes[Len(nframes)].type = "range"
    /\ nframes[Len(nframes)].phase = "loop"
    /\ nframes'[Len(nframes)].phase = "body"

\* C27: when the walk of an If, With, Range, Wrap, Arg or Callback node
\* ends, the variable stack is what it was before the node; and every
\* iteration of a Range starts with the stack as it was at the range's
\* mark, so no variable of an earlier iteration's body is on it.
C27_StackRestored ==
    [][/\ NodeExits => nvars' = nframes[Len(nframes)].before
       /\ IterationStarts => nvars' = nframes[Len(nframes)].atInner]_vars

\* an iteration of a nested range has ended whose body declared a variable,
\* the variable is off the stack, and another iteration is to come
C27_Witness ==
    /\ Len(nframes) = MaxNest
    /\ nframes[Len(nframes)].type = "range"
    /\ nframes[Len(nframes)].phase = "loop"
    /\ nframes[Len(nframes)].declared > 0
    /\ nframes[Len(nframes)].left > 0
    /\ nvars = nframes[Len(nframes)].atInner

-----------------------------------------------------------------------------
(* Properties of the writer after walkWrap *)

\* C28: when the walk of a Wrap node has ended, State.wr is again the writer
\* that was current before it, whether the body wrote a byte that is not
\* white space or not.
C28_WriterRestored == wpc = "done" => wr = "real"

-----------------------------------------------------------------------------
(* Properties of the expression evaluator *)

\* the arithmetic kinds
Arithmetic(v) == v.kind \in NumericKinds

\* C29: for operator +, when the operands are not both of arithmetic kind,
\* the result is the string that joins the default text forms of the two,
\* with no error and no fault, on whichever side the other operand is.
\* Stated for valid operands, and leaving out a sequence on the left, to
\* which + appends.
C29_SumFallsBackToConcatenation ==
    (/\ ypc = "out"
     /\ ~(Arithmetic(ya) /\ Arithmetic(yb))
     /\ ya.kind # "invalid" /\ yb.kind # "invalid"
     /\ ya.kind # "slice")
    => yres = ExprOk(ExprValue("string", 0, Sprint(ya) \o Sprint(yb)))

-----------------------------------------------------------------------------
(* Properties of renders started inside a walk *)

\* C30: a render started from inside a walk runs one deeper than the walk
\* that started it, so the nesting never passes the maximum depth: a cycle
\* ends with the exceeded maximum template depth error.
C30_NestedRenderOneDeeper ==
    /\ \A i \in 2..Len(ustack) : ustack[i].depth = ustack[i - 1].depth + 1
    /\ Len(ustack) <= maxExecDepth + 1
    /\ upc # "overflow"
=============================================================================
